---- MODULE Spec2Model ----
(***************************************************************************)
(* The vSphere cloud-provider lifecycle of the cluster controller:         *)
(* InitializeCloudProvider and CleanUpCloudProvider drive a vCenter        *)
(* inventory (VM folders, tag categories) and record what they did on the  *)
(* tracked cluster through the atomic update callback.  Every external     *)
(* call is one step of an invocation and may fail.                         *)
(***************************************************************************)
EXTENDS Bags, FiniteSets, Integers, Sequences, TLC

\* At most this many tag categories are ever created in vCenter.
MaxCategories == 2

\* At most this many folders are in the list vCenter returns.
MaxFolders == 2

\* Execution contexts of the external reconciler.  The sequential
\* specification uses the first one only.
Procs == {1, 2}
SeqProcs == {1}

folderCleanupFinalizer == "kubermatic.k8c.io/cleanup-vsphere-folder"
tagCategoryCleanupFinilizer == "kubermatic.k8c.io/cleanup-vsphere-tag-category"

\* A path is the sequence of its segments; the empty string is the empty path.
NoPath == <<>>
\* A tag category ID is opaque; the empty string is the empty sequence.
NoID == <<>>

ClusterName == "c1"
UserFolder == <<"dc", "vm", "user">>
UserCategory == <<0>>

Range(s) == {s[i] : i \in DOMAIN s}

IsPrefix(a, b) == Len(a) <= Len(b) /\ SubSeq(b, 1, Len(a)) = a

Prefixes(path) == {SubSeq(path, 1, n) : n \in 1..Len(path)}

-----------------------------------------------------------------------------
(* Credential resolution *)

\* lookups is the sequence of secret keys the resolution asked the store for.
Creds(u, p) == [username |-> u, password |-> p, err |-> FALSE, lookups |-> <<>>]
CredsErr == [username |-> "", password |-> "", err |-> TRUE, lookups |-> <<>>]
Looked(r, keys) == [r EXCEPT !.lookups = keys]
SecretValue(v) == [v |-> v, err |-> FALSE]
SecretErr == [v |-> "", err |-> TRUE]

VsphereInfraManagementUserUsername == "infraManagementUserUsername"
VsphereInfraManagementUserPassword == "infraManagementUserPassword"
VsphereUsername == "username"
VspherePassword == "password"
SecretKeys == {VsphereInfraManagementUserUsername, VsphereInfraManagementUserPassword,
               VsphereUsername, VspherePassword}

\* The secret store: every key yields a value (possibly empty) or an error.
secretKeySelector(sec, key) == sec[key]

\* The secret's plain key is asked before its management-user key.
getUsernameAndPassword_PlainKeyFirst(cloud, sec, infraManagementUser) ==
  LET u0 == IF infraManagementUser THEN cloud.InfraManagementUser.Username ELSE ""
      p0 == IF infraManagementUser THEN cloud.InfraManagementUser.Password ELSE ""
      u1 == IF u0 = "" THEN cloud.Username ELSE u0
      p1 == IF p0 = "" THEN cloud.Password ELSE p0
      u2 == IF u1 = "" THEN secretKeySelector(sec, VsphereUsername) ELSE SecretValue(u1)
      u3 == IF u2.v = "" /\ infraManagementUser
              THEN secretKeySelector(sec, VsphereInfraManagementUserUsername)
              ELSE u2
      p2 == IF p1 = "" THEN secretKeySelector(sec, VspherePassword) ELSE SecretValue(p1)
      p3 == IF p2.v = "" /\ infraManagementUser
              THEN secretKeySelector(sec, VsphereInfraManagementUserPassword)
              ELSE p2
  IN  IF u1 # "" /\ p1 # "" THEN Creds(u1, p1)
      ELSE IF ~cloud.CredentialsReference THEN CredsErr
      ELSE IF u2.err THEN CredsErr
      ELSE IF u3.err THEN CredsErr
      ELSE IF p2.err THEN CredsErr
      ELSE IF p3.err THEN CredsErr
      ELSE IF u3.v = "" THEN CredsErr
      ELSE IF p3.v = "" THEN CredsErr
      ELSE Creds(u3.v, p3.v)

\* The two checks for a field that is still empty are left out.
getUsernameAndPassword_NoEmptyCheck(cloud, sec, infraManagementUser) ==
  LET u0 == IF infraManagementUser THEN cloud.InfraManagementUser.Username ELSE ""
      p0 == IF infraManagementUser THEN cloud.InfraManagementUser.Password ELSE ""
      u1 == IF u0 = "" THEN cloud.Username ELSE u0
      p1 == IF p0 = "" THEN cloud.Password ELSE p0
      u2 == IF u1 = "" /\ infraManagementUser
              THEN secretKeySelector(sec, VsphereInfraManagementUserUsername)
              ELSE SecretValue(u1)
      u3 == IF u2.v = "" THEN secretKeySelector(sec, VsphereUsername) ELSE u2
      p2 == IF p1 = "" /\ infraManagementUser
              THEN secretKeySelector(sec, VsphereInfraManagementUserPassword)
              ELSE SecretValue(p1)
      p3 == IF p2.v = "" THEN secretKeySelector(sec, VspherePassword) ELSE p2
  IN  IF u1 # "" /\ p1 # "" THEN Creds(u1, p1)
      ELSE IF ~cloud.CredentialsReference THEN CredsErr
      ELSE IF u2.err THEN CredsErr
      ELSE IF u3.err THEN CredsErr
      ELSE IF p2.err THEN CredsErr
      ELSE IF p3.err THEN CredsErr
      ELSE Creds(u3.v, p3.v)

\* A failed username lookup does not stop the password lookups.
getUsernameAndPassword_LookupsAfterError(cloud, sec, infraManagementUser) ==
  LET u0 == IF infraManagementUser THEN cloud.InfraManagementUser.Username ELSE ""
      p0 == IF infraManagementUser THEN cloud.InfraManagementUser.Password ELSE ""
      u1 == IF u0 = "" THEN cloud.Username ELSE u0
      p1 == IF p0 = "" THEN cloud.Password ELSE p0
      u2 == IF u1 = "" /\ infraManagementUser
              THEN secretKeySelector(sec, VsphereInfraManagementUserUsername)
              ELSE SecretValue(u1)
      u3 == IF u2.v = "" THEN secretKeySelector(sec, VsphereUsername) ELSE u2
      p2 == IF p1 = "" /\ infraManagementUser
              THEN secretKeySelector(sec, VsphereInfraManagementUserPassword)
              ELSE SecretValue(p1)
      p3 == IF p2.v = "" THEN secretKeySelector(sec, VspherePassword) ELSE p2
      \* Which of the four lookups the control flow reaches.
      q1 == u1 = "" /\ infraManagementUser
      q2 == ~u2.err /\ u2.v = ""
      q3 == TRUE
      q4 == q3 /\ ~p2.err /\ p2.v = ""
      q34 == (IF q3 /\ p1 = "" /\ infraManagementUser
                THEN <<VsphereInfraManagementUserPassword>> ELSE <<>>)
             \o (IF q4 THEN <<VspherePassword>> ELSE <<>>)
      keys == (IF q1 THEN <<VsphereInfraManagementUserUsername>> ELSE <<>>)
              \o (IF q2 THEN <<VsphereUsername>> ELSE <<>>)
              \o q34
  IN  IF u1 # "" /\ p1 # "" THEN Creds(u1, p1)
      ELSE IF ~cloud.CredentialsReference THEN CredsErr
      ELSE IF u2.err THEN Looked(CredsErr, keys)
      ELSE IF u3.err THEN Looked(CredsErr, keys)
      ELSE IF p2.err THEN Looked(CredsErr, keys)
      ELSE IF p3.err THEN Looked(CredsErr, keys)
      ELSE IF u3.v = "" THEN Looked(CredsErr, keys)
      ELSE IF p3.v = "" THEN Looked(CredsErr, keys)
      ELSE Looked(Creds(u3.v, p3.v), keys)

getUsernameAndPassword(cloud, sec, infraManagementUser) ==
  LET u0 == IF infraManagementUser THEN cloud.InfraManagementUser.Username ELSE ""
      p0 == IF infraManagementUser THEN cloud.InfraManagementUser.Password ELSE ""
      u1 == IF u0 = "" THEN cloud.Username ELSE u0
      p1 == IF p0 = "" THEN cloud.Password ELSE p0
      u2 == IF u1 = "" /\ infraManagementUser
              THEN secretKeySelector(sec, VsphereInfraManagementUserUsername)
              ELSE SecretValue(u1)
      u3 == IF u2.v = "" THEN secretKeySelector(sec, VsphereUsername) ELSE u2
      p2 == IF p1 = "" /\ infraManagementUser
              THEN secretKeySelector(sec, VsphereInfraManagementUserPassword)
              ELSE SecretValue(p1)
      p3 == IF p2.v = "" THEN secretKeySelector(sec, VspherePassword) ELSE p2
      \* Which of the four lookups the control flow reaches.
      q1 == u1 = "" /\ infraManagementUser
      q2 == ~u2.err /\ u2.v = ""
      q3 == ~u2.err /\ ~u3.err
      q4 == q3 /\ ~p2.err /\ p2.v = ""
      q34 == (IF q3 /\ p1 = "" /\ infraManagementUser
                THEN <<VsphereInfraManagementUserPassword>> ELSE <<>>)
             \o (IF q4 THEN <<VspherePassword>> ELSE <<>>)
      keys == (IF q1 THEN <<VsphereInfraManagementUserUsername>> ELSE <<>>)
              \o (IF q2 THEN <<VsphereUsername>> ELSE <<>>)
              \o q34
  IN  IF u1 # "" /\ p1 # "" THEN Creds(u1, p1)
      ELSE IF ~cloud.CredentialsReference THEN CredsErr
      ELSE IF u2.err THEN Looked(CredsErr, keys)
      ELSE IF u3.err THEN Looked(CredsErr, keys)
      ELSE IF p2.err THEN Looked(CredsErr, keys)
      ELSE IF p3.err THEN Looked(CredsErr, keys)
      ELSE IF u3.v = "" THEN Looked(CredsErr, keys)
      ELSE IF p3.v = "" THEN Looked(CredsErr, keys)
      ELSE Looked(Creds(u3.v, p3.v), keys)

\* The datacenter's management user is not looked at.
GetCredentialsForCluster_NoDatacenterUser(cloud, sec, d) ==
  getUsernameAndPassword(cloud, sec, TRUE)

GetCredentialsForCluster(cloud, sec, d) ==
  IF /\ ~d.InfraManagementUser.nil
     /\ d.InfraManagementUser.Username # ""
     /\ d.InfraManagementUser.Password # ""
    THEN Creds(d.InfraManagementUser.Username, d.InfraManagementUser.Password)
    ELSE getUsernameAndPassword(cloud, sec, TRUE)

-----------------------------------------------------------------------------
(* Paths and the vCenter inventory *)

\* path.Clean on segments: empty and "." segments disappear.
RECURSIVE pathClean(_)
pathClean(path) ==
  IF path = <<>> THEN <<>>
  ELSE IF Head(path) \in {"", "."} THEN pathClean(Tail(path))
  ELSE <<Head(path)>> \o pathClean(Tail(path))

pathJoin(root, name) == pathClean(root \o <<name>>)

getVMRootPath(d) ==
  IF d.RootPath # NoPath THEN pathClean(d.RootPath)
  ELSE pathJoin(<<d.Datacenter>>, "vm")

\* The folder inventory is a bag of paths: a path created twice is there twice.
createVMFolder(inv, path) ==
  inv (+) SetToBag({q \in Prefixes(path) : ~BagIn(q, inv)})

deleteVMFolder(inv, path) ==
  [q \in {r \in BagToSet(inv) : ~IsPrefix(path, r)} |-> inv[q]]

\* The category with the next unused ID.
createTagCategory(n) == <<n + 1>>

deleteTagCategory(cats, id) == cats \ {id}

\* Inventory paths as strings: a string is the sequence of its characters.
strings_HasPrefix(str, prefix) ==
  Len(str) >= Len(prefix) /\ SubSeq(str, 1, Len(prefix)) = prefix

\* The elements of a path between its slashes.
RECURSIVE pathElements(_, _)
pathElements(str, element) ==
  IF str = <<>> THEN <<element>>
  ELSE IF Head(str) = "/" THEN <<element>> \o pathElements(Tail(str), <<>>)
  ELSE pathElements(Tail(str), Append(element, Head(str)))

\* path.Clean on the elements: empty and "." elements go, ".." takes the
\* element before it with it, and a ".." at the start of a rooted path goes.
RECURSIVE cleanElements(_, _, _)
cleanElements(elements, rooted, out) ==
  IF elements = <<>> THEN out
  ELSE LET e == Head(elements)
           rest == Tail(elements)
       IN  IF e = <<>> \/ e = <<".">> THEN cleanElements(rest, rooted, out)
           ELSE IF e # <<".", ".">> THEN cleanElements(rest, rooted, Append(out, e))
           ELSE IF out # <<>> /\ out[Len(out)] # <<".", ".">>
             THEN cleanElements(rest, rooted, SubSeq(out, 1, Len(out) - 1))
           ELSE IF rooted THEN cleanElements(rest, rooted, out)
           ELSE cleanElements(rest, rooted, Append(out, e))

RECURSIVE joinElements(_)
joinElements(elements) ==
  IF elements = <<>> THEN <<>>
  ELSE IF Tail(elements) = <<>> THEN Head(elements)
  ELSE Head(elements) \o <<"/">> \o joinElements(Tail(elements))

path_Clean(str) ==
  IF str = <<>> THEN <<".">>
  ELSE LET rooted == Head(str) = "/"
           body == joinElements(cleanElements(pathElements(str, <<>>), rooted, <<>>))
       IN  IF rooted THEN <<"/">> \o body
           ELSE IF body = <<>> THEN <<".">> ELSE body

\* path.Join("/", a, b): the non-empty elements joined by slashes, cleaned.
path_Join(a, b) == path_Clean(<<"/">> \o <<"/">> \o a \o <<"/">> \o b)

\* getVMRootPath on strings.
getVMRootPathString(d) ==
  IF d.RootPath # <<>> THEN path_Clean(d.RootPath)
  ELSE path_Join(d.Datacenter, <<"v", "m">>)

\* The filter loop of GetVMFolders without the "/" after the root path.
RECURSIVE filterFolders_NoBoundary(_, _)
filterFolders_NoBoundary(refs, rootPath) ==
  IF refs = <<>> THEN <<>>
  ELSE IF ~strings_HasPrefix(Head(refs), rootPath) /\ Head(refs) # rootPath
    THEN filterFolders_NoBoundary(Tail(refs), rootPath)
  ELSE <<Head(refs)>> \o filterFolders_NoBoundary(Tail(refs), rootPath)

\* The filter loop of GetVMFolders.
RECURSIVE filterFolders(_, _)
filterFolders(refs, rootPath) ==
  IF refs = <<>> THEN <<>>
  ELSE IF ~strings_HasPrefix(Head(refs), rootPath \o <<"/">>) /\ Head(refs) # rootPath
    THEN filterFolders(Tail(refs), rootPath)
  ELSE <<Head(refs)>> \o filterFolders(Tail(refs), rootPath)

HasFinalizer(c, name) == name \in c.Finalizers
AddFinalizer(c, name) == [c EXCEPT !.Finalizers = @ \cup {name}]
RemoveFinalizer(c, name) == [c EXCEPT !.Finalizers = @ \ {name}]

-----------------------------------------------------------------------------
VARIABLES
  dc,                \* the datacenter spec of the provider (static)
  secrets,           \* the secret store behind secretKeySelector (static)
  cluster,           \* the tracked cluster, as persisted
  vcFolders,         \* vCenter: bag of folder paths
  vcCategories,      \* vCenter: set of tag category IDs
  nextCategory,      \* number of tag categories created so far
  createdFolders,    \* paths a createVMFolder call of initialize has created
  createdCategories, \* IDs a createTagCategory call of initialize has created
  pc,                \* position of each invocation
  op,                \* operation each context runs
  local,             \* the invocation's cluster variable
  pre,               \* the tracked cluster when the invocation started
  preFolders,        \* the folder inventory when the invocation started
  creds,             \* the resolved <<username, password>>
  categoryID,        \* the ID returned by createTagCategory
  result,            \* "none", "ok" or "err"
  failedAt,          \* the call whose failure ended the invocation
  log,               \* the external calls issued by the invocation, in order
  logins,            \* the <<username, password>> pairs presented at login
  loggedIn,          \* sessions logged in and not yet logged out
  deferred,          \* the deferred Logout calls, in registration order
  handled,           \* sessions whose Logout error went to HandleError
  leaked,            \* sessions of earlier invocations never logged out
  prev,              \* the invocation each context ran before its current one
  vspec,             \* the datastore fields of the spec ValidateCloudSpec is given
  verr,              \* the error ValidateCloudSpec returned: its text and %q/%s value
  failures,          \* external calls that have failed so far
  deleting,          \* the cluster's deletion has been requested
  oldSpec,           \* the cloud specs ValidateCloudSpecUpdate is given
  newSpec,
  listArgs,          \* the datacenter, username and password GetVMFolders is given
  folderRefs,        \* the folder list session.Finder.FolderList returned
  folders,           \* the folders GetVMFolders returned
  emitted,           \* quota service: the list quotas emitted last, and who received it
  quotasComponent,   \* QuotasComponent: its fields and its subscription
  quotaDialog,       \* ProjectQuotaDialogComponent: fields, form, request, dialog
  operatingSystem,   \* AddNodeService: the operating system data emitted last
  addNode,           \* VSphereAddNodeComponent: its form and its subscriptions
  nodeProviderData,  \* AddNodeService: the data changeNodeProviderData got last
  editProject        \* EditProjectComponent: fields, form and the request it sent

envVars == <<dc, secrets>>
vcVars == <<vcFolders, vcCategories, nextCategory, createdFolders, createdCategories>>
sessVars == <<logins, loggedIn, deferred>>
startVars == <<op, pre, preFolders, handled, leaked, prev>>
valVars == <<vspec, verr>>
liveVars == <<failures, deleting>>
argVars == <<oldSpec, newSpec>>
listVars == <<listArgs, folderRefs, folders>>
quotaVars == <<emitted, quotasComponent, quotaDialog>>
nodeVars == <<operatingSystem, addNode, nodeProviderData>>
uiVars == <<emitted, quotasComponent, quotaDialog, operatingSystem, addNode,
            nodeProviderData, editProject>>

providerVars == <<dc, secrets, cluster, vcFolders, vcCategories, nextCategory,
                  createdFolders, createdCategories, pc, op, local, pre, preFolders,
                  creds, categoryID, result, failedAt, log, logins, loggedIn, deferred,
                  handled, leaked, prev, vspec, verr, failures, deleting, oldSpec, newSpec,
                  listArgs, folderRefs, folders>>

vars == <<dc, secrets, cluster, vcFolders, vcCategories, nextCategory,
          createdFolders, createdCategories, pc, op, local, pre, preFolders,
          creds, categoryID, result, failedAt, log, logins, loggedIn, deferred, handled,
          leaked, prev, vspec, verr, failures, deleting, oldSpec, newSpec,
          listArgs, folderRefs, folders, emitted, quotasComponent, quotaDialog,
          operatingSystem, addNode, nodeProviderData, editProject>>

NoUser == [Username |-> "", Password |-> ""]
NilUser == [nil |-> TRUE, Username |-> "", Password |-> ""]
User(u, p) == [nil |-> FALSE, Username |-> u, Password |-> p]
NoSecrets == [k \in SecretKeys |-> SecretValue("")]

\* The credential configurations the lifecycle is run under: a complete
\* datacenter management user, inline cluster credentials, a partial
\* datacenter management user beside inline credentials, credentials from
\* the secret store, and nothing resolvable.
LifecycleEnvs ==
  { [dcUser |-> User("dcu", "dcp"), Username |-> "cu", Password |-> "cp",
     InfraManagementUser |-> NoUser, CredentialsReference |-> FALSE, secrets |-> NoSecrets],
    [dcUser |-> NilUser, Username |-> "cu", Password |-> "cp",
     InfraManagementUser |-> NoUser, CredentialsReference |-> FALSE, secrets |-> NoSecrets],
    [dcUser |-> User("dcu", ""), Username |-> "cu", Password |-> "cp",
     InfraManagementUser |-> NoUser, CredentialsReference |-> FALSE, secrets |-> NoSecrets],
    [dcUser |-> NilUser, Username |-> "", Password |-> "",
     InfraManagementUser |-> NoUser, CredentialsReference |-> TRUE,
     secrets |-> [NoSecrets EXCEPT ![VsphereUsername] = SecretValue("su"),
                                   ![VspherePassword] = SecretValue("sp")]],
    [dcUser |-> NilUser, Username |-> "", Password |-> "",
     InfraManagementUser |-> NoUser, CredentialsReference |-> FALSE, secrets |-> NoSecrets] }

RootPaths == {NoPath, <<"kubermatic", ".", "vms">>}

\* Every input of the credential resolution: the datacenter's management
\* user nil, partly or fully set, each cluster field empty or set, the
\* credentialsReference nil or not, and every key of the secret empty, set or
\* failing to be read.
CredentialEnvs ==
  { [dcUser |-> d, Username |-> u, Password |-> pw,
     InfraManagementUser |-> [Username |-> iu, Password |-> ip],
     CredentialsReference |-> ref, secrets |-> sec] :
      d \in {NilUser} \cup {User(du, dp) : du \in {"", "dcu"}, dp \in {"", "dcp"}},
      u \in {"", "cu"}, pw \in {"", "cp"}, iu \in {"", "imu"}, ip \in {"", "imp"},
      ref \in BOOLEAN,
      sec \in {[k \in SecretKeys |->
                  IF k \in set THEN SecretValue("s-" \o k)
                  ELSE IF k \in bad THEN SecretErr ELSE SecretValue("")] :
                set \in SUBSET SecretKeys, bad \in SUBSET SecretKeys} }

\* A cloud spec as ValidateCloudSpecUpdate reads it: its VSphere part is nil
\* or carries a folder.
NilSpec == [nil |-> TRUE, Folder |-> NoPath]
VSphereSpec(folder) == [nil |-> FALSE, Folder |-> folder]

\* The arguments of GetVMFolders before it is called.
NoListArgs == [dc |-> [Datacenter |-> <<"d", "c">>, RootPath |-> <<>>,
                       InfraManagementUser |-> NilUser],
               username |-> "", password |-> ""]

\* The datastore fields of a cloud spec, and the error of a validation.
NoDatastores == [Datastore |-> "", DatastoreCluster |-> "", ResourcePool |-> ""]
NoError == [text |-> "", value |-> ""]


\* The web components as their constructors leave them.
\* No quota list has been emitted and nobody has received one.
NoEmission == [quotas |-> <<>>, seen |-> {}]

\* QuotasComponent: quotas = [], dataSource.data = quotas, isLoading = true.
NewQuotasComponent ==
  [quotas |-> <<>>, data |-> <<>>, isLoading |-> TRUE,
   subscribed |-> FALSE, destroyed |-> FALSE]

\* An undefined selectedQuota.
NoQuota == [name |-> "", subjectName |-> ""]

\* ProjectQuotaDialogComponent: no quotas, no selected quota, no form yet;
\* request, response, closed and notifications are what it asked of the
\* quota service, the dialog and the notification service.
NewProjectQuotaDialogComponent ==
  [quotas |-> <<>>, selectedQuota |-> NoQuota,
   subjectName |-> "", enabled |-> FALSE, cpu |-> 0,
   subscribed |-> FALSE, destroyed |-> FALSE,
   request |-> "none", response |-> "none", closed |-> FALSE, notifications |-> <<>>]

\* No operating system data has been emitted (n counts the emissions).
NoOperatingSystem == [ubuntu |-> FALSE, containerLinux |-> FALSE, n |-> 0]

\* VSphereAddNodeComponent: the form's initial values and defaultTemplate.
NewVSphereAddNodeComponent ==
  [cpu |-> 1, memory |-> 512, template |-> "ubuntu-template",
   defaultTemplate |-> "ubuntu-template", subscribed |-> FALSE, destroyed |-> FALSE]

\* changeNodeProviderData has not been called.
NoNodeProviderData == <<>>

\* A labels object that is undefined, and EditProjectComponent before ngOnInit.
NoLabels == [defined |-> FALSE, entries |-> {}]
NoRequest == <<>>
NewEditProjectComponent ==
  [initialised |-> FALSE, project |-> [name |-> "", labels |-> NoLabels],
   name |-> "", labels |-> NoLabels, request |-> NoRequest, closed |-> FALSE]

InitWith(envs, defaultDatastores) ==
  \E env \in envs, root \in RootPaths, ds \in defaultDatastores,
     folder \in {NoPath, UserFolder}, category \in {NoID, UserCategory} :
    /\ dc = [Datacenter |-> "dc", RootPath |-> root, InfraManagementUser |-> env.dcUser,
             DefaultDatastore |-> ds]
    /\ secrets = env.secrets
    /\ cluster = [Name |-> ClusterName, Finalizers |-> {},
                  Folder |-> folder, TagCategoryID |-> category,
                  Username |-> env.Username, Password |-> env.Password,
                  InfraManagementUser |-> env.InfraManagementUser,
                  CredentialsReference |-> env.CredentialsReference]
    /\ vcFolders = SetToBag(Prefixes(<<"dc", "vm">>) \cup Prefixes(folder))
    /\ vcCategories = IF category = NoID THEN {} ELSE {category}
    /\ nextCategory = 0
    /\ createdFolders = {}
    /\ createdCategories = {}
    /\ pc = [p \in Procs |-> "idle"]
    /\ op = [p \in Procs |-> "none"]
    /\ local = [p \in Procs |-> cluster]
    /\ pre = [p \in Procs |-> cluster]
    /\ preFolders = [p \in Procs |-> vcFolders]
    /\ creds = [p \in Procs |-> <<"", "">>]
    /\ categoryID = [p \in Procs |-> NoID]
    /\ result = [p \in Procs |-> "none"]
    /\ failedAt = [p \in Procs |-> ""]
    /\ log = [p \in Procs |-> <<>>]
    /\ logins = [p \in Procs |-> <<>>]
    /\ loggedIn = [p \in Procs |-> {}]
    /\ deferred = [p \in Procs |-> <<>>]
    /\ handled = [p \in Procs |-> {}]
    /\ leaked = {}
    /\ prev = [p \in Procs |->
                [op |-> "none", result |-> "none", failedAt |-> "", pre |-> cluster]]
    /\ vspec = [p \in Procs |-> NoDatastores]
    /\ verr = [p \in Procs |-> NoError]
    /\ failures = 0
    /\ deleting = FALSE
    /\ oldSpec = VSphereSpec(folder)
    /\ newSpec = VSphereSpec(folder)
    /\ listArgs = [p \in Procs |-> NoListArgs]
    /\ folderRefs = [p \in Procs |-> <<>>]
    /\ folders = [p \in Procs |-> <<>>]
    /\ emitted = NoEmission
    /\ quotasComponent = NewQuotasComponent
    /\ quotaDialog = NewProjectQuotaDialogComponent
    /\ operatingSystem = NoOperatingSystem
    /\ addNode = NewVSphereAddNodeComponent
    /\ nodeProviderData = NoNodeProviderData
    /\ editProject = NewEditProjectComponent

\* The lifecycle runs in a datacenter without a default datastore.
Init == InitWith(LifecycleEnvs, {""})

-----------------------------------------------------------------------------
(* Steps shared by the operations *)

Operations == {"initialize", "cleanUp"}

FirstStep(o) ==
  CASE o = "initialize" -> "i_credentials"
    [] o = "cleanUp" -> "c_credentials"
    [] o = "validate" -> "v_credentials"
    [] o = "getVMFolders" -> "f_newSession"

Called(p, call, ok) ==
  log' = [log EXCEPT ![p] = Append(@, [call |-> call, ok |-> ok])]

ReturnErr(p, call) ==
  /\ pc' = [pc EXCEPT ![p] = "return"]
  /\ result' = [result EXCEPT ![p] = "err"]
  /\ failedAt' = [failedAt EXCEPT ![p] = call]

Goto(p, label) ==
  /\ pc' = [pc EXCEPT ![p] = label]
  /\ result' = [result EXCEPT ![p] = IF label = "return" THEN "ok" ELSE @]
  /\ UNCHANGED failedAt

\* The reconciler hands the operation the tracked cluster as it is now.
Invoke(p, o) ==
  /\ pc[p] \in {"idle", "done"}
  /\ op' = [op EXCEPT ![p] = o]
  /\ pc' = [pc EXCEPT ![p] = FirstStep(o)]
  /\ local' = [local EXCEPT ![p] = cluster]
  /\ pre' = [pre EXCEPT ![p] = cluster]
  /\ preFolders' = [preFolders EXCEPT ![p] = vcFolders]
  /\ creds' = [creds EXCEPT ![p] = <<"", "">>]
  /\ categoryID' = [categoryID EXCEPT ![p] = NoID]
  /\ result' = [result EXCEPT ![p] = "none"]
  /\ failedAt' = [failedAt EXCEPT ![p] = ""]
  /\ log' = [log EXCEPT ![p] = <<>>]
  /\ logins' = [logins EXCEPT ![p] = <<>>]
  /\ leaked' = leaked \cup loggedIn[p]
  /\ loggedIn' = [loggedIn EXCEPT ![p] = {}]
  /\ deferred' = [deferred EXCEPT ![p] = <<>>]
  /\ handled' = [handled EXCEPT ![p] = {}]
  /\ prev' = [prev EXCEPT ![p] =
                IF pc[p] = "done"
                  THEN [op |-> op[p], result |-> result[p],
                        failedAt |-> failedAt[p], pre |-> pre[p]]
                  ELSE @]
  /\ UNCHANGED <<envVars, cluster, vcVars>>

SessionOutcomes == {"connectErr", "loginErr", "datacenterErr", "ok"}

\* newSession: url.Parse or vim25.NewClient fails (connectErr), Login fails
\* (loginErr), the datacenter is not found after the login (datacenterErr),
\* or the session is returned.
newSessionFor(p, d, usernamePassword, outcome) ==
  LET user == IF ~d.InfraManagementUser.nil
                THEN <<d.InfraManagementUser.Username, d.InfraManagementUser.Password>>
                ELSE usernamePassword
  IN  /\ logins' = [logins EXCEPT ![p] = IF outcome = "connectErr" THEN @ ELSE Append(@, user)]
      /\ loggedIn' = [loggedIn EXCEPT ![p] =
                        IF outcome \in {"datacenterErr", "ok"} THEN @ \cup {"vim"} ELSE @]

\* The provider's calls pass its datacenter and the resolved credentials.
newSession(p, outcome) == newSessionFor(p, dc, creds[p], outcome)

RESTSessionOutcomes == {"connectErr", "loginErr", "ok"}

newRESTSession(p, outcome) ==
  /\ logins' = [logins EXCEPT ![p] = IF outcome = "connectErr" THEN @ ELSE Append(@, creds[p])]
  /\ loggedIn' = [loggedIn EXCEPT ![p] = IF outcome = "ok" THEN @ \cup {"rest"} ELSE @]

\* The atomic update collaborator: the mutation is applied to the persisted
\* cluster and the new version returned, or nothing is applied.
update(p, ok, mutated) ==
  IF ok
    THEN cluster' = mutated /\ local' = [local EXCEPT ![p] = mutated]
    ELSE UNCHANGED <<cluster, local>>

\* The function returns: the deferred Logout calls run, last registered first.
\* A Logout error goes to HandleError and nowhere else.
Logout(p) ==
  /\ \E failed \in SUBSET Range(deferred[p]) : handled' = [handled EXCEPT ![p] = failed]
  /\ loggedIn' = [loggedIn EXCEPT ![p] = @ \ Range(deferred[p])]
  /\ deferred' = [deferred EXCEPT ![p] = <<>>]

\* The error of a Logout becomes the result of the operation.
Return_LogoutErrorReturned(p) ==
  /\ pc[p] = "return"
  /\ Logout(p)
  /\ pc' = [pc EXCEPT ![p] = "done"]
  /\ result' = [result EXCEPT ![p] = IF handled'[p] # {} THEN "err" ELSE @]
  /\ UNCHANGED <<envVars, cluster, vcVars, op, local, pre, preFolders, creds, categoryID,
                 failedAt, log, logins, leaked, prev>>

Return(p) ==
  /\ pc[p] = "return"
  /\ Logout(p)
  /\ pc' = [pc EXCEPT ![p] = "done"]
  /\ UNCHANGED <<envVars, cluster, vcVars, op, local, pre, preFolders, creds, categoryID,
                 result, failedAt, log, logins, leaked, prev>>

-----------------------------------------------------------------------------
(* InitializeCloudProvider *)

ClusterFolder(p) == pathJoin(getVMRootPath(dc), local[p].Name)

AfterFolderStep(c) == IF c.TagCategoryID = NoID THEN "i_newRESTSession" ELSE "return"

\* The guard on the folder field left out: the folder step always runs.
InitCredentials_NoFolderGuard(p) ==
  /\ pc[p] = "i_credentials"
  /\ LET c == GetCredentialsForCluster(local[p], secrets, dc)
     IN  IF c.err
           THEN ReturnErr(p, "GetCredentialsForCluster") /\ UNCHANGED creds
           ELSE /\ creds' = [creds EXCEPT ![p] = <<c.username, c.password>>]
                /\ Goto(p, "i_newSession")
  /\ UNCHANGED <<envVars, cluster, vcVars, startVars, local, categoryID, log, sessVars>>

InitCredentials(p) ==
  /\ pc[p] = "i_credentials"
  /\ LET c == GetCredentialsForCluster(local[p], secrets, dc)
     IN  IF c.err
           THEN ReturnErr(p, "GetCredentialsForCluster") /\ UNCHANGED creds
           ELSE /\ creds' = [creds EXCEPT ![p] = <<c.username, c.password>>]
                /\ Goto(p, IF local[p].Folder = NoPath
                             THEN "i_newSession" ELSE AfterFolderStep(local[p]))
  /\ UNCHANGED <<envVars, cluster, vcVars, startVars, local, categoryID, log, sessVars>>

\* A failed newSession is tried again instead of being returned.
InitNewSession_Retry(p) ==
  /\ pc[p] = "i_newSession"
  /\ \E outcome \in SessionOutcomes :
       /\ newSession(p, outcome)
       /\ Called(p, "newSession", outcome = "ok")
       /\ IF outcome = "ok"
            THEN /\ deferred' = [deferred EXCEPT ![p] = Append(@, "vim")]
                 /\ Goto(p, "i_createVMFolder")
            ELSE UNCHANGED <<pc, result, failedAt, deferred>>
  /\ UNCHANGED <<envVars, cluster, vcVars, startVars, local, creds, categoryID>>

InitNewSession(p) ==
  /\ pc[p] = "i_newSession"
  /\ \E outcome \in SessionOutcomes :
       /\ newSession(p, outcome)
       /\ Called(p, "newSession", outcome = "ok")
       /\ IF outcome = "ok"
            THEN /\ deferred' = [deferred EXCEPT ![p] = Append(@, "vim")]
                 /\ Goto(p, "i_createVMFolder")
            ELSE /\ ReturnErr(p, "newSession")
                 /\ UNCHANGED deferred
  /\ UNCHANGED <<envVars, cluster, vcVars, startVars, local, creds, categoryID>>

\* The error of createVMFolder is dropped: the update follows a failed create.
InitCreateVMFolder_ErrIgnored(p) ==
  /\ pc[p] = "i_createVMFolder"
  /\ \E ok \in BOOLEAN :
       /\ Called(p, "createVMFolder", ok)
       /\ IF ok
            THEN /\ vcFolders' = createVMFolder(vcFolders, ClusterFolder(p))
                 /\ createdFolders' = createdFolders \cup {ClusterFolder(p)}
            ELSE UNCHANGED <<vcFolders, createdFolders>>
       /\ Goto(p, "i_updateFolder")
  /\ UNCHANGED <<envVars, cluster, vcCategories, nextCategory, createdCategories,
                 startVars, local, creds, categoryID, sessVars>>

InitCreateVMFolder(p) ==
  /\ pc[p] = "i_createVMFolder"
  /\ \E ok \in BOOLEAN :
       /\ Called(p, "createVMFolder", ok)
       /\ IF ok
            THEN /\ vcFolders' = createVMFolder(vcFolders, ClusterFolder(p))
                 /\ createdFolders' = createdFolders \cup {ClusterFolder(p)}
                 /\ Goto(p, "i_updateFolder")
            ELSE /\ ReturnErr(p, "createVMFolder")
                 /\ UNCHANGED <<vcFolders, createdFolders>>
  /\ UNCHANGED <<envVars, cluster, vcCategories, nextCategory, createdCategories,
                 startVars, local, creds, categoryID, sessVars>>

\* The folder path is recorded without its cleanup finalizer.
InitUpdateFolder_NoFinalizer(p) ==
  /\ pc[p] = "i_updateFolder"
  /\ \E ok \in BOOLEAN :
       /\ Called(p, "updateFolder", ok)
       /\ update(p, ok, [cluster EXCEPT !.Folder = ClusterFolder(p)])
       /\ IF ok THEN Goto(p, AfterFolderStep(local'[p]))
                ELSE ReturnErr(p, "updateFolder")
  /\ UNCHANGED <<envVars, vcVars, startVars, creds, categoryID, sessVars>>

\* The finalizer is added and the folder path is not recorded.
InitUpdateFolder_NoFolder(p) ==
  /\ pc[p] = "i_updateFolder"
  /\ \E ok \in BOOLEAN :
       /\ Called(p, "updateFolder", ok)
       /\ update(p, ok, AddFinalizer(cluster, folderCleanupFinalizer))
       /\ IF ok THEN Goto(p, AfterFolderStep(local'[p]))
                ELSE ReturnErr(p, "updateFolder")
  /\ UNCHANGED <<envVars, vcVars, startVars, creds, categoryID, sessVars>>

\* The error of the folder update is dropped: the tag category step follows.
InitUpdateFolder_ErrIgnored(p) ==
  /\ pc[p] = "i_updateFolder"
  /\ \E ok \in BOOLEAN :
       /\ Called(p, "updateFolder", ok)
       /\ update(p, ok, [AddFinalizer(cluster, folderCleanupFinalizer)
                           EXCEPT !.Folder = ClusterFolder(p)])
       /\ Goto(p, AfterFolderStep(local'[p]))
  /\ UNCHANGED <<envVars, vcVars, startVars, creds, categoryID, sessVars>>

InitUpdateFolder(p) ==
  /\ pc[p] = "i_updateFolder"
  /\ \E ok \in BOOLEAN :
       /\ Called(p, "updateFolder", ok)
       /\ update(p, ok, [AddFinalizer(cluster, folderCleanupFinalizer)
                           EXCEPT !.Folder = ClusterFolder(p)])
       /\ IF ok THEN Goto(p, AfterFolderStep(local'[p]))
                ELSE ReturnErr(p, "updateFolder")
  /\ UNCHANGED <<envVars, vcVars, startVars, creds, categoryID, sessVars>>

InitNewRESTSession(p) ==
  /\ pc[p] = "i_newRESTSession"
  /\ \E outcome \in RESTSessionOutcomes :
       /\ newRESTSession(p, outcome)
       /\ Called(p, "newRESTSession", outcome = "ok")
       /\ IF outcome = "ok"
            THEN /\ deferred' = [deferred EXCEPT ![p] = Append(@, "rest")]
                 /\ Goto(p, "i_createTagCategory")
            ELSE /\ ReturnErr(p, "newRESTSession")
                 /\ UNCHANGED deferred
  /\ UNCHANGED <<envVars, cluster, vcVars, startVars, local, creds, categoryID>>

\* The error of createTagCategory is dropped: the update follows a failed create.
InitCreateTagCategory_ErrIgnored(p) ==
  /\ pc[p] = "i_createTagCategory"
  /\ \E ok \in BOOLEAN :
       /\ ok => nextCategory < MaxCategories
       /\ Called(p, "createTagCategory", ok)
       /\ IF ok
            THEN /\ categoryID' = [categoryID EXCEPT ![p] = createTagCategory(nextCategory)]
                 /\ vcCategories' = vcCategories \cup {createTagCategory(nextCategory)}
                 /\ createdCategories' = createdCategories \cup {createTagCategory(nextCategory)}
                 /\ nextCategory' = nextCategory + 1
            ELSE UNCHANGED <<categoryID, vcCategories, createdCategories, nextCategory>>
       /\ Goto(p, "i_updateTagCategory")
  /\ UNCHANGED <<envVars, cluster, vcFolders, createdFolders, startVars, local, creds, sessVars>>

InitCreateTagCategory(p) ==
  /\ pc[p] = "i_createTagCategory"
  /\ \E ok \in BOOLEAN :
       /\ ok => nextCategory < MaxCategories
       /\ Called(p, "createTagCategory", ok)
       /\ IF ok
            THEN /\ categoryID' = [categoryID EXCEPT ![p] = createTagCategory(nextCategory)]
                 /\ vcCategories' = vcCategories \cup {createTagCategory(nextCategory)}
                 /\ createdCategories' = createdCategories \cup {createTagCategory(nextCategory)}
                 /\ nextCategory' = nextCategory + 1
                 /\ Goto(p, "i_updateTagCategory")
            ELSE /\ ReturnErr(p, "createTagCategory")
                 /\ UNCHANGED <<categoryID, vcCategories, createdCategories, nextCategory>>
  /\ UNCHANGED <<envVars, cluster, vcFolders, createdFolders, startVars, local, creds, sessVars>>

InitUpdateTagCategory(p) ==
  /\ pc[p] = "i_updateTagCategory"
  /\ \E ok \in BOOLEAN :
       /\ Called(p, "updateTagCategory", ok)
       /\ update(p, ok, [AddFinalizer(cluster, tagCategoryCleanupFinilizer)
                           EXCEPT !.TagCategoryID = categoryID[p]])
       /\ IF ok THEN Goto(p, "return") ELSE ReturnErr(p, "updateTagCategory")
  /\ UNCHANGED <<envVars, vcVars, startVars, creds, categoryID, sessVars>>

InitializeCloudProvider(p) ==
  \/ InitCredentials(p)
  \/ InitNewSession(p)
  \/ InitCreateVMFolder(p)
  \/ InitUpdateFolder(p)
  \/ InitNewRESTSession(p)
  \/ InitCreateTagCategory(p)
  \/ InitUpdateTagCategory(p)

-----------------------------------------------------------------------------
(* CleanUpCloudProvider *)

AfterFolderCleanup(c) ==
  IF HasFinalizer(c, tagCategoryCleanupFinilizer) THEN "c_deleteTagCategory" ELSE "return"

\* The error of the credential resolution is dropped: the sessions are opened
\* with the empty pair it returned.
CleanUpCredentials_ErrIgnored(p) ==
  /\ pc[p] = "c_credentials"
  /\ LET c == GetCredentialsForCluster(local[p], secrets, dc)
     IN  /\ creds' = [creds EXCEPT ![p] = <<c.username, c.password>>]
         /\ Goto(p, "c_newSession")
  /\ UNCHANGED <<envVars, cluster, vcVars, startVars, local, categoryID, log, sessVars>>

CleanUpCredentials(p) ==
  /\ pc[p] = "c_credentials"
  /\ LET c == GetCredentialsForCluster(local[p], secrets, dc)
     IN  IF c.err
           THEN ReturnErr(p, "GetCredentialsForCluster") /\ UNCHANGED creds
           ELSE /\ creds' = [creds EXCEPT ![p] = <<c.username, c.password>>]
                /\ Goto(p, "c_newSession")
  /\ UNCHANGED <<envVars, cluster, vcVars, startVars, local, categoryID, log, sessVars>>

CleanUpNewSession(p) ==
  /\ pc[p] = "c_newSession"
  /\ \E outcome \in SessionOutcomes :
       /\ newSession(p, outcome)
       /\ Called(p, "newSession", outcome = "ok")
       /\ IF outcome = "ok"
            THEN /\ deferred' = [deferred EXCEPT ![p] = Append(@, "vim")]
                 /\ Goto(p, "c_newRESTSession")
            ELSE /\ ReturnErr(p, "newSession")
                 /\ UNCHANGED deferred
  /\ UNCHANGED <<envVars, cluster, vcVars, startVars, local, creds, categoryID>>

\* The folder is deleted whether or not the folder-cleanup finalizer is there.
CleanUpNewRESTSession_NoFinalizerGuard(p) ==
  /\ pc[p] = "c_newRESTSession"
  /\ \E outcome \in RESTSessionOutcomes :
       /\ newRESTSession(p, outcome)
       /\ Called(p, "newRESTSession", outcome = "ok")
       /\ IF outcome = "ok"
            THEN /\ deferred' = [deferred EXCEPT ![p] = Append(@, "rest")]
                 /\ Goto(p, "c_deleteVMFolder")
            ELSE /\ ReturnErr(p, "newRESTSession")
                 /\ UNCHANGED deferred
  /\ UNCHANGED <<envVars, cluster, vcVars, startVars, local, creds, categoryID>>

\* The tag-plane session is needed only with the tag category finalizer: its
\* failure is passed over when that finalizer is absent.
CleanUpNewRESTSession_OnlyWithFinalizer(p) ==
  /\ pc[p] = "c_newRESTSession"
  /\ \E outcome \in RESTSessionOutcomes :
       /\ newRESTSession(p, outcome)
       /\ Called(p, "newRESTSession", outcome = "ok")
       /\ IF outcome = "ok" \/ ~HasFinalizer(local[p], tagCategoryCleanupFinilizer)
            THEN /\ deferred' = [deferred EXCEPT ![p] =
                                   IF outcome = "ok" THEN Append(@, "rest") ELSE @]
                 /\ Goto(p, IF HasFinalizer(local[p], folderCleanupFinalizer)
                              THEN "c_deleteVMFolder" ELSE AfterFolderCleanup(local[p]))
            ELSE /\ ReturnErr(p, "newRESTSession")
                 /\ UNCHANGED deferred
  /\ UNCHANGED <<envVars, cluster, vcVars, startVars, local, creds, categoryID>>

CleanUpNewRESTSession(p) ==
  /\ pc[p] = "c_newRESTSession"
  /\ \E outcome \in RESTSessionOutcomes :
       /\ newRESTSession(p, outcome)
       /\ Called(p, "newRESTSession", outcome = "ok")
       /\ IF outcome = "ok"
            THEN /\ deferred' = [deferred EXCEPT ![p] = Append(@, "rest")]
                 /\ Goto(p, IF HasFinalizer(local[p], folderCleanupFinalizer)
                              THEN "c_deleteVMFolder" ELSE AfterFolderCleanup(local[p]))
            ELSE /\ ReturnErr(p, "newRESTSession")
                 /\ UNCHANGED deferred
  /\ UNCHANGED <<envVars, cluster, vcVars, startVars, local, creds, categoryID>>

\* The error of deleteVMFolder is dropped: the finalizer is removed all the same.
CleanUpDeleteVMFolder_ErrIgnored(p) ==
  /\ pc[p] = "c_deleteVMFolder"
  /\ \E ok \in BOOLEAN :
       /\ Called(p, "deleteVMFolder", ok)
       /\ IF ok
            THEN vcFolders' = deleteVMFolder(vcFolders, local[p].Folder)
            ELSE UNCHANGED vcFolders
       /\ Goto(p, "c_updateFolder")
  /\ UNCHANGED <<envVars, cluster, vcCategories, nextCategory, createdFolders,
                 createdCategories, startVars, local, creds, categoryID, sessVars>>

CleanUpDeleteVMFolder(p) ==
  /\ pc[p] = "c_deleteVMFolder"
  /\ \E ok \in BOOLEAN :
       /\ Called(p, "deleteVMFolder", ok)
       /\ IF ok
            THEN /\ vcFolders' = deleteVMFolder(vcFolders, local[p].Folder)
                 /\ Goto(p, "c_updateFolder")
            ELSE /\ ReturnErr(p, "deleteVMFolder")
                 /\ UNCHANGED vcFolders
  /\ UNCHANGED <<envVars, cluster, vcCategories, nextCategory, createdFolders,
                 createdCategories, startVars, local, creds, categoryID, sessVars>>

\* The update also empties the folder field.
CleanUpUpdateFolder_ClearsFolder(p) ==
  /\ pc[p] = "c_updateFolder"
  /\ \E ok \in BOOLEAN :
       /\ Called(p, "updateFolder", ok)
       /\ update(p, ok, [RemoveFinalizer(cluster, folderCleanupFinalizer)
                           EXCEPT !.Folder = NoPath])
       /\ IF ok THEN Goto(p, AfterFolderCleanup(local'[p]))
                ELSE ReturnErr(p, "updateFolder")
  /\ UNCHANGED <<envVars, vcVars, startVars, creds, categoryID, sessVars>>

CleanUpUpdateFolder(p) ==
  /\ pc[p] = "c_updateFolder"
  /\ \E ok \in BOOLEAN :
       /\ Called(p, "updateFolder", ok)
       /\ update(p, ok, RemoveFinalizer(cluster, folderCleanupFinalizer))
       /\ IF ok THEN Goto(p, AfterFolderCleanup(local'[p]))
                ELSE ReturnErr(p, "updateFolder")
  /\ UNCHANGED <<envVars, vcVars, startVars, creds, categoryID, sessVars>>

\* The error of deleteTagCategory is dropped: the finalizer is removed all
\* the same.
CleanUpDeleteTagCategory_ErrIgnored(p) ==
  /\ pc[p] = "c_deleteTagCategory"
  /\ \E ok \in BOOLEAN :
       /\ Called(p, "deleteTagCategory", ok)
       /\ IF ok
            THEN vcCategories' = deleteTagCategory(vcCategories, local[p].TagCategoryID)
            ELSE UNCHANGED vcCategories
       /\ Goto(p, "c_updateTagCategory")
  /\ UNCHANGED <<envVars, cluster, vcFolders, nextCategory, createdFolders,
                 createdCategories, startVars, local, creds, categoryID, sessVars>>

CleanUpDeleteTagCategory(p) ==
  /\ pc[p] = "c_deleteTagCategory"
  /\ \E ok \in BOOLEAN :
       /\ Called(p, "deleteTagCategory", ok)
       /\ IF ok
            THEN /\ vcCategories' = deleteTagCategory(vcCategories, local[p].TagCategoryID)
                 /\ Goto(p, "c_updateTagCategory")
            ELSE /\ ReturnErr(p, "deleteTagCategory")
                 /\ UNCHANGED vcCategories
  /\ UNCHANGED <<envVars, cluster, vcFolders, nextCategory, createdFolders,
                 createdCategories, startVars, local, creds, categoryID, sessVars>>

CleanUpUpdateTagCategory(p) ==
  /\ pc[p] = "c_updateTagCategory"
  /\ \E ok \in BOOLEAN :
       /\ Called(p, "updateTagCategory", ok)
       /\ update(p, ok, RemoveFinalizer(cluster, tagCategoryCleanupFinilizer))
       /\ IF ok THEN Goto(p, "return") ELSE ReturnErr(p, "updateTagCategory")
  /\ UNCHANGED <<envVars, vcVars, startVars, creds, categoryID, sessVars>>

CleanUpCloudProvider(p) ==
  \/ CleanUpCredentials(p)
  \/ CleanUpNewSession(p)
  \/ CleanUpNewRESTSession(p)
  \/ CleanUpDeleteVMFolder(p)
  \/ CleanUpUpdateFolder(p)
  \/ CleanUpDeleteTagCategory(p)
  \/ CleanUpUpdateTagCategory(p)

-----------------------------------------------------------------------------
(* ValidateCloudSpec *)

\* The names a cloud spec handed to ValidateCloudSpec carries.
Datastores == {"", "ds1", "ds2"}
DatastoreClusters == {"", "dsc1"}
ResourcePools == {"", "rp1"}
\* The default datastore of the datacenter in the validation runs.
DefaultDatastores == {"", "ds1"}

NoDatastoreText ==
  "no default datastore provided at datacenter nor datastore/datastore cluster at cluster level"
EitherDatastoreText == "either datastore or datastore cluster can be selected"
SessionText == "failed to create vCenter session"
DefaultDatastoreText == "failed to get default datastore provided by datacenter spec"
ResourcePoolText == "failed to get resource pool"
DatastoreClusterText == "failed to get datastore cluster provided by cluster spec"
DatastoreText == "failed to get datastore cluster provided by cluste spec"
CredentialsText == "GetCredentialsForCluster"

\* The validation returns the error with this text and formatted value.
ValidateErr(p, call, text, value) ==
  /\ ReturnErr(p, call)
  /\ verr' = [verr EXCEPT ![p] = [text |-> text, value |-> value]]

\* The reconciler (or the API) hands ValidateCloudSpec a cloud spec: the
\* tracked cluster's credentials with any datastore fields.
InvokeValidate(p) ==
  /\ Invoke(p, "validate")
  /\ \E ds \in Datastores, dsc \in DatastoreClusters, rp \in ResourcePools :
       vspec' = [vspec EXCEPT ![p] =
                   [Datastore |-> ds, DatastoreCluster |-> dsc, ResourcePool |-> rp]]
  /\ verr' = [verr EXCEPT ![p] = NoError]

\* The check that refuses a datastore beside a datastore cluster is left out.
ValidateCredentials_NoExclusivityCheck(p) ==
  /\ pc[p] = "v_credentials"
  /\ LET c == GetCredentialsForCluster(local[p], secrets, dc)
     IN  IF c.err
           THEN ValidateErr(p, "GetCredentialsForCluster", CredentialsText, "") /\ UNCHANGED creds
         ELSE IF /\ dc.DefaultDatastore = ""
                 /\ vspec[p].DatastoreCluster = ""
                 /\ vspec[p].Datastore = ""
           THEN ValidateErr(p, "datastoreConfig", NoDatastoreText, "") /\ UNCHANGED creds
         ELSE /\ creds' = [creds EXCEPT ![p] = <<c.username, c.password>>]
              /\ Goto(p, "v_newSession")
              /\ UNCHANGED verr
  /\ UNCHANGED <<envVars, cluster, vcVars, startVars, local, categoryID, log, sessVars, vspec>>

\* Credentials, then the two checks on the datastore fields.
ValidateCredentials(p) ==
  /\ pc[p] = "v_credentials"
  /\ LET c == GetCredentialsForCluster(local[p], secrets, dc)
     IN  IF c.err
           THEN ValidateErr(p, "GetCredentialsForCluster", CredentialsText, "") /\ UNCHANGED creds
         ELSE IF /\ dc.DefaultDatastore = ""
                 /\ vspec[p].DatastoreCluster = ""
                 /\ vspec[p].Datastore = ""
           THEN ValidateErr(p, "datastoreConfig", NoDatastoreText, "") /\ UNCHANGED creds
         ELSE IF vspec[p].DatastoreCluster # "" /\ vspec[p].Datastore # ""
           THEN ValidateErr(p, "datastoreConfig", EitherDatastoreText, "") /\ UNCHANGED creds
         ELSE /\ creds' = [creds EXCEPT ![p] = <<c.username, c.password>>]
              /\ Goto(p, "v_newSession")
              /\ UNCHANGED verr
  /\ UNCHANGED <<envVars, cluster, vcVars, startVars, local, categoryID, log, sessVars, vspec>>

\* The validation fills an empty datastore of the spec with the default one.
ValidateNewSession_DefaultsDatastore(p) ==
  /\ pc[p] = "v_newSession"
  /\ \E outcome \in SessionOutcomes :
       /\ newSession(p, outcome)
       /\ Called(p, "newSession", outcome = "ok")
       /\ IF outcome = "ok"
            THEN /\ deferred' = [deferred EXCEPT ![p] = Append(@, "vim")]
                 /\ Goto(p, "v_defaultDatastore")
                 /\ vspec' = [vspec EXCEPT ![p].Datastore =
                                IF @ = "" /\ vspec[p].DatastoreCluster = ""
                                  THEN dc.DefaultDatastore ELSE @]
                 /\ UNCHANGED verr
            ELSE /\ ValidateErr(p, "newSession", SessionText, "")
                 /\ UNCHANGED <<deferred, vspec>>
  /\ UNCHANGED <<envVars, cluster, vcVars, startVars, local, creds, categoryID>>

ValidateNewSession(p) ==
  /\ pc[p] = "v_newSession"
  /\ \E outcome \in SessionOutcomes :
       /\ newSession(p, outcome)
       /\ Called(p, "newSession", outcome = "ok")
       /\ IF outcome = "ok"
            THEN /\ deferred' = [deferred EXCEPT ![p] = Append(@, "vim")]
                 /\ Goto(p, "v_defaultDatastore")
                 /\ UNCHANGED verr
            ELSE /\ ValidateErr(p, "newSession", SessionText, "")
                 /\ UNCHANGED deferred
  /\ UNCHANGED <<envVars, cluster, vcVars, startVars, local, creds, categoryID, vspec>>

\* One inventory lookup of the session's finder: skipped when the name is
\* empty, otherwise issued once; its failure ends the validation.
Lookup(p, label, call, name, text, next) ==
  /\ pc[p] = label
  /\ IF name = ""
       THEN Goto(p, next) /\ UNCHANGED <<log, verr>>
       ELSE \E ok \in BOOLEAN :
              /\ Called(p, call, ok)
              /\ IF ok
                   THEN Goto(p, next) /\ UNCHANGED verr
                   ELSE ValidateErr(p, call, text, name)
  /\ UNCHANGED <<envVars, cluster, vcVars, startVars, local, creds, categoryID, sessVars, vspec>>

\* The datacenter's default datastore is looked up only when the spec names
\* no datastore of its own.
ValidateDefaultDatastore_OnlyWithoutOwnDatastore(p) ==
  Lookup(p, "v_defaultDatastore", "Datastore(default)",
         IF vspec[p].Datastore # "" THEN "" ELSE dc.DefaultDatastore,
         DefaultDatastoreText, "v_resourcePool")

ValidateDefaultDatastore(p) ==
  Lookup(p, "v_defaultDatastore", "Datastore(default)", dc.DefaultDatastore,
         DefaultDatastoreText, "v_resourcePool")

ValidateResourcePool(p) ==
  Lookup(p, "v_resourcePool", "ResourcePool", vspec[p].ResourcePool,
         ResourcePoolText, "v_datastoreCluster")

ValidateDatastoreCluster(p) ==
  Lookup(p, "v_datastoreCluster", "DatastoreCluster", vspec[p].DatastoreCluster,
         DatastoreClusterText, "v_datastore")

ValidateDatastore(p) ==
  Lookup(p, "v_datastore", "Datastore", vspec[p].Datastore,
         DatastoreText, "return")

ValidateCloudSpec(p) ==
  \/ ValidateCredentials(p)
  \/ ValidateNewSession(p)
  \/ ValidateDefaultDatastore(p)
  \/ ValidateResourcePool(p)
  \/ ValidateDatastoreCluster(p)
  \/ ValidateDatastore(p)

-----------------------------------------------------------------------------
Step(p) ==
  \/ \E o \in Operations : Invoke(p, o)
  \/ InitializeCloudProvider(p)
  \/ CleanUpCloudProvider(p)
  \/ Return(p)

\* One invocation at a time.
Next ==
  \E p \in SeqProcs : Step(p) /\ UNCHANGED <<valVars, liveVars, argVars, listVars, uiVars>>

Spec == Init /\ [][Next]_vars

\* Concurrent reconciliation: two execution contexts of the reconciler each
\* run InitializeCloudProvider once on the same cluster, their external
\* calls interleaved in every order.
InitConc ==
  /\ Init
  /\ dc.RootPath = NoPath
  /\ dc.InfraManagementUser.nil
  /\ cluster.Username # ""

NextConc ==
  \E p \in Procs :
    /\ \/ pc[p] = "idle" /\ Invoke(p, "initialize")
       \/ InitializeCloudProvider(p)
       \/ Return(p)
    /\ UNCHANGED <<valVars, liveVars, argVars, listVars, uiVars>>

SpecConc == InitConc /\ [][NextConc]_vars

\* The three operations of the provider, one invocation at a time, on a
\* cluster that starts without folder and tag category, in a datacenter with
\* or without a default datastore and without a management user of its own.
InitOps ==
  /\ InitWith(LifecycleEnvs, DefaultDatastores)
  /\ dc.InfraManagementUser.nil
  /\ dc.RootPath = NoPath
  /\ cluster.Folder = NoPath
  /\ cluster.TagCategoryID = NoID

StepOps(p) ==
  \/ /\ \E o \in Operations : Invoke(p, o)
     /\ vspec' = [vspec EXCEPT ![p] = NoDatastores]
     /\ verr' = [verr EXCEPT ![p] = NoError]
  \/ InvokeValidate(p)
  \/ InitializeCloudProvider(p) /\ UNCHANGED valVars
  \/ CleanUpCloudProvider(p) /\ UNCHANGED valVars
  \/ ValidateCloudSpec(p)
  \/ Return(p) /\ UNCHANGED valVars

NextOps ==
  \E p \in SeqProcs : StepOps(p) /\ UNCHANGED <<liveVars, argVars, listVars, uiVars>>

SpecOps == InitOps /\ [][NextOps]_vars

\* ValidateCloudSpec alone, on every cluster and datacenter of InitWith.
InitValidate == InitWith(LifecycleEnvs, DefaultDatastores)

NextValidate ==
  \E p \in SeqProcs :
    /\ \/ InvokeValidate(p)
       \/ ValidateCloudSpec(p)
       \/ Return(p) /\ UNCHANGED valVars
    /\ UNCHANGED <<liveVars, argVars, listVars, uiVars>>

SpecValidate == InitValidate /\ [][NextValidate]_vars

\* The credential resolution applied to every input of CredentialEnvs.
InitResolve ==
  /\ InitWith(CredentialEnvs, {""})
  /\ dc.RootPath = NoPath
  /\ cluster.Folder = NoPath
  /\ cluster.TagCategoryID = NoID

ResolveCredentials(p) ==
  /\ pc[p] = "idle"
  /\ LET c == GetCredentialsForCluster(cluster, secrets, dc)
     IN  /\ creds' = [creds EXCEPT ![p] = <<c.username, c.password>>]
         /\ result' = [result EXCEPT ![p] = IF c.err THEN "err" ELSE "ok"]
         /\ log' = [log EXCEPT ![p] =
                      [i \in DOMAIN c.lookups |->
                         [call |-> c.lookups[i],
                          ok |-> ~secretKeySelector(secrets, c.lookups[i]).err]]]
  /\ op' = [op EXCEPT ![p] = "credentials"]
  /\ pc' = [pc EXCEPT ![p] = "done"]
  /\ UNCHANGED <<envVars, cluster, vcVars, local, pre, preFolders, categoryID, failedAt,
                 sessVars, handled, leaked, prev, valVars, liveVars, argVars, listVars,
                 uiVars>>

NextResolve == \E p \in SeqProcs : ResolveCredentials(p)

SpecResolve == InitResolve /\ [][NextResolve]_vars

\* GetVMFolders, called with a datacenter whose root path is not set, set
\* to a clean path, or set to a path path.Clean changes, on every folder list
\* of at most MaxFolders inventory paths.
RootPathStrings ==
  { <<>>,
    <<"/", "a">>,
    <<"/", "a", "/">>,
    <<"/", "a", "b">>,
    <<"/", "a", "/", "b">>,
    <<"/", "/", "a">>,
    <<"/", "a", "/", ".">>,
    <<"/", "b", "/", ".", ".", "/", "a">>,
    <<"/">>,
    <<"a">> }

InventoryPaths ==
  { <<"/", "a">>,
    <<"/", "a", "b">>,
    <<"/", "a", "/", "b">>,
    <<"/", "b">>,
    <<"/", "d", "c", "/", "v", "m">>,
    <<"/", "d", "c", "/", "v", "m", "/", "a">>,
    <<"/", "d", "c", "/", "v", "m", "x">> }

FolderLists == UNION {[1..n -> InventoryPaths] : n \in 0..MaxFolders}

InitFolders ==
  /\ Init
  /\ dc.RootPath = NoPath
  /\ dc.InfraManagementUser.nil
  /\ cluster.Username # ""
  /\ cluster.Folder = NoPath
  /\ cluster.TagCategoryID = NoID

InvokeGetVMFolders(p) ==
  /\ Invoke(p, "getVMFolders")
  /\ \E root \in RootPathStrings, user \in {NilUser, User("dcu", "dcp")} :
       listArgs' = [listArgs EXCEPT ![p] =
                      [dc |-> [Datacenter |-> <<"d", "c">>, RootPath |-> root,
                               InfraManagementUser |-> user],
                       username |-> "u", password |-> "pw"]]
  /\ folderRefs' = [folderRefs EXCEPT ![p] = <<>>]
  /\ folders' = [folders EXCEPT ![p] = <<>>]

ListNewSession(p) ==
  /\ pc[p] = "f_newSession"
  /\ \E outcome \in SessionOutcomes :
       /\ newSessionFor(p, listArgs[p].dc, <<listArgs[p].username, listArgs[p].password>>,
                        outcome)
       /\ Called(p, "newSession", outcome = "ok")
       /\ IF outcome = "ok"
            THEN /\ deferred' = [deferred EXCEPT ![p] = Append(@, "vim")]
                 /\ Goto(p, "f_folderList")
            ELSE /\ ReturnErr(p, "newSession")
                 /\ UNCHANGED deferred
  /\ UNCHANGED <<envVars, cluster, vcVars, startVars, local, creds, categoryID, listVars>>

\* FolderList("*") and the filter loop over what it returned.
ListFolders(p) ==
  /\ pc[p] = "f_folderList"
  /\ \/ /\ Called(p, "FolderList", TRUE)
        /\ \E refs \in FolderLists :
             /\ folderRefs' = [folderRefs EXCEPT ![p] = refs]
             /\ folders' = [folders EXCEPT ![p] =
                              filterFolders(refs, getVMRootPathString(listArgs[p].dc))]
        /\ Goto(p, "return")
     \/ /\ Called(p, "FolderList", FALSE)
        /\ ReturnErr(p, "FolderList")
        /\ UNCHANGED <<folderRefs, folders>>
  /\ UNCHANGED <<envVars, cluster, vcVars, startVars, local, creds, categoryID, sessVars,
                 listArgs>>

GetVMFolders(p) ==
  \/ ListNewSession(p)
  \/ ListFolders(p)

NextFolders ==
  \E p \in SeqProcs :
    /\ \/ InvokeGetVMFolders(p)
       \/ GetVMFolders(p)
       \/ Return(p) /\ UNCHANGED listVars
    /\ UNCHANGED <<valVars, liveVars, argVars, uiVars>>

SpecFolders == InitFolders /\ [][NextFolders]_vars

\* ValidateCloudSpecUpdate applied to every pair of specs of UpdateSpecs.
OtherFolder == <<"dc", "vm", "other">>
UpdateSpecs == {NilSpec} \cup {VSphereSpec(f) : f \in {NoPath, UserFolder, OtherFolder}}

EmptySpecText == "'vsphere' spec is empty"
FolderUpdateText == "updating vSphere folder is not supported"

\* Any change of the folder is refused, also the first setting of it.
ValidateCloudSpecUpdate_AnyFolderChange(old, new) ==
  IF old.nil \/ new.nil THEN [text |-> EmptySpecText, value |-> ""]
  ELSE IF old.Folder # new.Folder
    THEN [text |-> FolderUpdateText, value |-> <<old.Folder, new.Folder>>]
  ELSE NoError

\* A change of a folder that was set is admitted like any other.
ValidateCloudSpecUpdate_FolderChangeAdmitted(old, new) ==
  IF old.nil \/ new.nil THEN [text |-> EmptySpecText, value |-> ""]
  ELSE NoError

ValidateCloudSpecUpdate(old, new) ==
  IF old.nil \/ new.nil THEN [text |-> EmptySpecText, value |-> ""]
  ELSE IF old.Folder # NoPath /\ old.Folder # new.Folder
    THEN [text |-> FolderUpdateText, value |-> <<old.Folder, new.Folder>>]
  ELSE NoError

ValidateUpdate(p) ==
  /\ pc[p] \in {"idle", "done"}
  /\ \E old \in UpdateSpecs, new \in UpdateSpecs :
       /\ oldSpec' = old
       /\ newSpec' = new
       /\ verr' = [verr EXCEPT ![p] = ValidateCloudSpecUpdate(old, new)]
       /\ result' = [result EXCEPT ![p] =
                       IF ValidateCloudSpecUpdate(old, new) = NoError THEN "ok" ELSE "err"]
  /\ op' = [op EXCEPT ![p] = "validateUpdate"]
  /\ pc' = [pc EXCEPT ![p] = "done"]
  /\ UNCHANGED <<envVars, cluster, vcVars, local, pre, preFolders, creds, categoryID,
                 failedAt, log, sessVars, handled, leaked, prev, vspec, liveVars, listVars,
                 uiVars>>

NextUpdate == \E p \in SeqProcs : ValidateUpdate(p)

SpecUpdate == Init /\ [][NextUpdate]_vars

\* The folders a user may write into the cluster's spec between two
\* invocations: none, a folder of their own, or the path initialize would use.
UpdateFolders ==
  {NoPath, UserFolder, OtherFolder, pathJoin(getVMRootPath(dc), ClusterName)}

\* The update is written without asking ValidateCloudSpecUpdate.
UpdateCloudSpec_Unvalidated(p) ==
  /\ pc[p] \in {"idle", "done"}
  /\ \E folder \in UpdateFolders : cluster' = [cluster EXCEPT !.Folder = folder]
  /\ UNCHANGED <<envVars, vcVars, pc, op, local, pre, preFolders, creds, categoryID, result,
                 failedAt, log, sessVars, handled, leaked, prev>>

\* A user's update of the cluster's cloud spec, between two invocations: it
\* is written to the tracked cluster only when ValidateCloudSpecUpdate admits it.
UpdateCloudSpec(p) ==
  /\ pc[p] \in {"idle", "done"}
  /\ \E folder \in UpdateFolders :
       cluster' = IF ValidateCloudSpecUpdate(VSphereSpec(cluster.Folder),
                                             VSphereSpec(folder)) = NoError
                    THEN [cluster EXCEPT !.Folder = folder]
                    ELSE cluster
  /\ UNCHANGED <<envVars, vcVars, pc, op, local, pre, preFolders, creds, categoryID, result,
                 failedAt, log, sessVars, handled, leaked, prev>>

\* The lifecycle of one cluster whose spec the user may update.
NextAdmit ==
  \E p \in SeqProcs :
    /\ \/ Step(p)
       \/ UpdateCloudSpec(p)
    /\ UNCHANGED <<valVars, liveVars, argVars, listVars, uiVars>>

SpecAdmit == Init /\ [][NextAdmit]_vars

\* The reconciliation loop: the reconciler re-invokes InitializeCloudProvider
\* until the deletion of the cluster is requested and CleanUpCloudProvider
\* from then on.  An external call may fail, but only MaxFailures times in
\* all: from some point on every external call succeeds.
MaxFailures == MaxCategories - 1

CallFailed(p) == Len(log'[p]) > Len(log[p]) /\ ~log'[p][Len(log'[p])].ok

Reconcile(p) ==
  /\ \/ Invoke(p, IF deleting THEN "cleanUp" ELSE "initialize")
     \/ InitializeCloudProvider(p)
     \/ CleanUpCloudProvider(p)
     \/ Return(p)
  /\ failures' = IF CallFailed(p) THEN failures + 1 ELSE failures
  /\ failures' <= MaxFailures
  /\ UNCHANGED <<valVars, deleting, argVars, listVars, uiVars>>

RequestDeletion ==
  /\ ~deleting
  /\ deleting' = TRUE
  /\ UNCHANGED <<envVars, cluster, vcVars, pc, local, creds, categoryID, result, failedAt,
                 log, sessVars, startVars, valVars, failures, argVars, listVars, uiVars>>

NextLive ==
  \/ \E p \in SeqProcs : Reconcile(p)
  \/ RequestDeletion

\* The reconciler never stops: a step of it that stays possible is taken.
SpecLive == Init /\ [][NextLive]_vars /\ WF_vars(\E p \in SeqProcs : Reconcile(p))

-----------------------------------------------------------------------------
(* The web components run beside one provider configuration. *)

InitUI ==
  /\ Init
  /\ dc.RootPath = NoPath
  /\ dc.InfraManagementUser.nil
  /\ cluster.Username = "cu"
  /\ cluster.Folder = NoPath
  /\ cluster.TagCategoryID = NoID

\* A component that is subscribed to its services and not destroyed.
Live(component) == component.subscribed /\ ~component.destroyed

-----------------------------------------------------------------------------
(* Quota service, QuotasComponent and ProjectQuotaDialogComponent *)

\* The longest quota list the service emits.
MaxQuotas == 2

ProjectIDs == {"p1", "p2", "p3"}

\* The quota of a project: its name and the project it is for.
QuotaDetails(project) == [name |-> "project-" \o project, subjectName |-> project]

\* The lists the quota service emits: no project has two quotas.
QuotaLists ==
  { l \in UNION {[1..n -> {QuotaDetails(x) : x \in ProjectIDs}] : n \in 0..MaxQuotas} :
      \A i, j \in DOMAIN l : l[i] = l[j] => i = j }

\* The order of JavaScript's < on the quota names.
NameRank(name) ==
  CASE name = "project-p1" -> 1
    [] name = "project-p2" -> 2
    [] name = "project-p3" -> 3

\* onSortChange's comparison for the column projectId, ascending.
compare(a, b) == IF NameRank(a.name) < NameRank(b.name) THEN 0 - 1 ELSE 1

RECURSIVE insertSorted(_, _)
insertSorted(q, sorted) ==
  IF sorted = <<>> THEN <<q>>
  ELSE IF compare(q, Head(sorted)) < 0 THEN <<q>> \o sorted
  ELSE <<Head(sorted)>> \o insertSorted(q, Tail(sorted))

\* Array.prototype.sort with compare.
RECURSIVE sort(_)
sort(list) == IF list = <<>> THEN <<>> ELSE insertSorted(Head(list), sort(Tail(list)))

\* this.quotas is sorted in place and becomes the data of the table.
onSortChange(c) == [c EXCEPT !.quotas = sort(c.quotas), !.data = sort(c.quotas)]

\* isLoading is cleared after the filter, not before it.
quotasNext_LoadingAfterFilter(c, quotas) ==
  IF quotas = c.quotas THEN c
  ELSE onSortChange([c EXCEPT !.isLoading = FALSE, !.quotas = quotas])

\* The pipe of QuotasComponent.ngOnInit on one emitted list: tap, filter
\* (the default sort() of both lists orders objects by "[object Object]" and
\* so leaves them as they are), then the subscriber.
quotasNext(c, quotas) ==
  IF quotas = c.quotas THEN [c EXCEPT !.isLoading = FALSE]
  ELSE onSortChange([c EXCEPT !.isLoading = FALSE, !.quotas = quotas])

\* The subscriber of ProjectQuotaDialogComponent._getQuotas.
getQuotas(d, quotas) == [d EXCEPT !.quotas = quotas]

\* Array.prototype.find on the subject name: the first match or undefined.
RECURSIVE find(_, _)
find(quotas, projectId) ==
  IF quotas = <<>> THEN NoQuota
  ELSE IF Head(quotas).subjectName = projectId THEN Head(quotas)
  ELSE find(Tail(quotas), projectId)

QuotasNgOnInit ==
  /\ ~quotasComponent.subscribed
  /\ ~quotasComponent.destroyed
  /\ quotasComponent' = [quotasComponent EXCEPT !.subscribed = TRUE]
  /\ UNCHANGED <<emitted, quotaDialog>>

QuotasNgOnDestroy ==
  /\ Live(quotasComponent)
  /\ quotasComponent' = [quotasComponent EXCEPT !.destroyed = TRUE]
  /\ UNCHANGED <<emitted, quotaDialog>>

\* The quota service emits a list: every live subscriber receives it.
QuotaServiceEmit ==
  \E quotas \in QuotaLists :
    /\ emitted' = [quotas |-> quotas,
                   seen |-> (IF Live(quotasComponent) THEN {"QuotasComponent"} ELSE {})
                            \cup (IF Live(quotaDialog)
                                    THEN {"ProjectQuotaDialogComponent"} ELSE {})]
    /\ quotasComponent' = IF Live(quotasComponent)
                            THEN quotasNext(quotasComponent, quotas)
                            ELSE quotasComponent
    /\ quotaDialog' = IF Live(quotaDialog) THEN getQuotas(quotaDialog, quotas)
                      ELSE quotaDialog

NextQuotas ==
  /\ \/ QuotasNgOnInit
     \/ QuotaServiceEmit
     \/ QuotasNgOnDestroy
  /\ UNCHANGED <<providerVars, nodeVars, editProject>>

SpecQuotas == InitUI /\ [][NextQuotas]_vars

\* The form is valid: a quota value is set and the subject name, when the
\* control is enabled, is not empty.
formValid(d) == d.cpu >= 1 /\ (d.enabled => d.subjectName # "")

DialogNgOnInit ==
  /\ ~quotaDialog.subscribed
  /\ ~quotaDialog.destroyed
  /\ quotaDialog' = [quotaDialog EXCEPT !.subscribed = TRUE]
  /\ UNCHANGED <<emitted, quotasComponent>>

DialogNgOnDestroy ==
  /\ Live(quotaDialog)
  /\ quotaDialog' = [quotaDialog EXCEPT !.destroyed = TRUE]
  /\ UNCHANGED <<emitted, quotasComponent>>

\* The project service emits the projects: the subject name can be chosen.
getProjects ==
  /\ Live(quotaDialog)
  /\ quotaDialog' = [quotaDialog EXCEPT !.enabled = TRUE]
  /\ UNCHANGED <<emitted, quotasComponent>>

\* The user picks a project (or clears the field): the quota of a non-empty
\* pick is looked for in the list received last.
subscribeToSubjectNameChanges ==
  /\ Live(quotaDialog)
  /\ quotaDialog.enabled
  /\ ~quotaDialog.closed
  /\ \E projectId \in ProjectIDs \cup {""} :
       quotaDialog' =
         [quotaDialog EXCEPT !.subjectName = projectId,
                             !.selectedQuota =
                                IF projectId # "" THEN find(quotaDialog.quotas, projectId)
                                ELSE @]
  /\ UNCHANGED <<emitted, quotasComponent>>

\* The user edits the quota value: 0 is patched to null, which is no value.
subscribeToQuotaGroupChanges ==
  /\ Live(quotaDialog)
  /\ ~quotaDialog.closed
  /\ \E cpu \in {0, 1} : quotaDialog' = [quotaDialog EXCEPT !.cpu = cpu]
  /\ UNCHANGED <<emitted, quotasComponent>>

\* The user submits: an invalid form yields of(null), a valid one the update
\* or the create request, which is then under way.
getObservable ==
  /\ Live(quotaDialog)
  /\ ~quotaDialog.closed
  /\ quotaDialog.response # "pending"
  /\ quotaDialog' =
       IF ~formValid(quotaDialog)
         THEN [quotaDialog EXCEPT !.request = "none", !.response = "null"]
         ELSE [quotaDialog EXCEPT
                 !.request = IF quotaDialog.selectedQuota # NoQuota THEN "update" ELSE "create",
                 !.response = "pending"]
  /\ UNCHANGED <<emitted, quotasComponent>>

\* The request completes or fails; finalize runs in both cases.
finalize ==
  /\ quotaDialog.response = "pending"
  /\ \E ok \in BOOLEAN :
       quotaDialog' =
         [quotaDialog EXCEPT
            !.response = IF ok THEN "ok" ELSE "error",
            !.closed = TRUE,
            !.notifications =
               Append(@, IF quotaDialog.selectedQuota # NoQuota THEN "Updated" ELSE "Created")]
  /\ UNCHANGED <<emitted, quotasComponent>>

NextDialog ==
  /\ \/ DialogNgOnInit
     \/ getProjects
     \/ QuotaServiceEmit
     \/ subscribeToSubjectNameChanges
     \/ subscribeToQuotaGroupChanges
     \/ getObservable
     \/ finalize
     \/ DialogNgOnDestroy
  /\ UNCHANGED <<providerVars, nodeVars, editProject>>

SpecDialog == InitUI /\ [][NextDialog]_vars

-----------------------------------------------------------------------------
(* AddNodeService and VSphereAddNodeComponent *)

\* The operating system data the add-node service emits at most this often.
MaxOsChanges == 2

UbuntuTemplate == "ubuntu-template"
ContainerLinuxTemplate == "coreos_production_vmware_ova"

\* What the user may type into the form.
Templates == {"", UbuntuTemplate, ContainerLinuxTemplate, "my-template", "other-template"}
Cpus == {0, 1, 2}
Memories == {256, 512, 1024}

\* The operating systems of a node: ubuntu, container linux, or another one.
OperatingSystems ==
  { [ubuntu |-> TRUE, containerLinux |-> FALSE],
    [ubuntu |-> FALSE, containerLinux |-> TRUE],
    [ubuntu |-> FALSE, containerLinux |-> FALSE] }

\* The template is empty or one of the two built-in defaults.
replaceable(template) == template \in {"", UbuntuTemplate, ContainerLinuxTemplate}

getNodeProviderData(a) ==
  [cpus |-> a.cpu, memory |-> a.memory, template |-> a.template,
   valid |-> a.cpu >= 1 /\ a.memory >= 512]

changeNodeProviderData(data) == <<data>>

\* The template is set to the operating system's default whatever it holds.
nodeOperatingSystemDataChanges_AlwaysReplaced(a, data) ==
  IF data.ubuntu
    THEN [a EXCEPT !.template = UbuntuTemplate, !.defaultTemplate = UbuntuTemplate]
  ELSE IF data.containerLinux
    THEN [a EXCEPT !.template = ContainerLinuxTemplate,
                   !.defaultTemplate = ContainerLinuxTemplate]
  ELSE [a EXCEPT !.defaultTemplate = UbuntuTemplate]

\* The subscriber of nodeOperatingSystemDataChanges$: the component after it.
nodeOperatingSystemDataChanges(a, data) ==
  IF data.ubuntu
    THEN [a EXCEPT !.template = IF replaceable(@) THEN UbuntuTemplate ELSE @,
                   !.defaultTemplate = UbuntuTemplate]
  ELSE IF data.containerLinux
    THEN [a EXCEPT !.template = IF replaceable(@) THEN ContainerLinuxTemplate ELSE @,
                   !.defaultTemplate = ContainerLinuxTemplate]
  ELSE [a EXCEPT !.defaultTemplate = UbuntuTemplate]

\* The subscriber called vsphereNodeForm.setValue, so valueChanges emitted.
setValueCalled(a, data) == (data.ubuntu \/ data.containerLinux) /\ replaceable(a.template)

AddNodeNgOnInit ==
  /\ ~addNode.subscribed
  /\ ~addNode.destroyed
  /\ addNode' = [addNode EXCEPT !.subscribed = TRUE]
  /\ nodeProviderData' = changeNodeProviderData(getNodeProviderData(addNode))
  /\ UNCHANGED operatingSystem

AddNodeNgOnDestroy ==
  /\ Live(addNode)
  /\ addNode' = [addNode EXCEPT !.destroyed = TRUE]
  /\ UNCHANGED <<operatingSystem, nodeProviderData>>

\* The user edits one control of the form: valueChanges publishes the form.
valueChanges ==
  /\ Live(addNode)
  /\ \/ \E cpu \in Cpus : addNode' = [addNode EXCEPT !.cpu = cpu]
     \/ \E memory \in Memories : addNode' = [addNode EXCEPT !.memory = memory]
     \/ \E template \in Templates : addNode' = [addNode EXCEPT !.template = template]
  /\ nodeProviderData' = changeNodeProviderData(getNodeProviderData(addNode'))
  /\ UNCHANGED operatingSystem

\* The add-node service emits operating system data; the component, when it
\* is subscribed, runs its subscriber, and setValue publishes the form.
changeNodeOperatingSystemData ==
  /\ operatingSystem.n < MaxOsChanges
  /\ \E data \in OperatingSystems :
       /\ operatingSystem' = [ubuntu |-> data.ubuntu, containerLinux |-> data.containerLinux,
                              n |-> operatingSystem.n + 1]
       /\ IF Live(addNode)
            THEN /\ addNode' = nodeOperatingSystemDataChanges(addNode, data)
                 /\ nodeProviderData' =
                      IF setValueCalled(addNode, data)
                        THEN changeNodeProviderData(getNodeProviderData(addNode'))
                        ELSE nodeProviderData
            ELSE UNCHANGED <<addNode, nodeProviderData>>

NextAddNode ==
  /\ \/ AddNodeNgOnInit
     \/ valueChanges
     \/ changeNodeOperatingSystemData
     \/ AddNodeNgOnDestroy
  /\ UNCHANGED <<providerVars, quotaVars, editProject>>

SpecAddNode == InitUI /\ [][NextAddNode]_vars

-----------------------------------------------------------------------------
(* EditProjectComponent *)

LabelKeys == {"env", "team"}

\* A label's value: null, or a string.
Null == [null |-> TRUE, value |-> ""]
Value(v) == [null |-> FALSE, value |-> v]

\* A labels object: at most one entry for a key.
LabelMaps(values) ==
  { m \in SUBSET {[key |-> k, value |-> v] : k \in LabelKeys, v \in values} :
      \A e, f \in m : e.key = f.key => e = f }

Labels(entries) == [defined |-> TRUE, entries |-> entries]

\* The labels of a project as the API returns it: none, or strings.
ProjectLabels == {NoLabels} \cup {Labels(m) : m \in LabelMaps({Value(""), Value("v")})}

ProjectNames == {"", "project", "renamed"}

\* Empty strings are deleted together with the nulls.
removeNullified_FalsyValues(labels) ==
  [labels EXCEPT !.entries = {e \in @ : ~e.value.null /\ e.value.value # ""}]

\* The for-in loop of getObservable: own properties that are null are deleted.
removeNullified(labels) == [labels EXCEPT !.entries = {e \in @ : ~e.value.null}]

EditProjectNgOnInit ==
  /\ ~editProject.initialised
  /\ \E labels \in ProjectLabels :
       editProject' = [editProject EXCEPT
                         !.initialised = TRUE,
                         !.project = [name |-> "project", labels |-> labels],
                         !.name = "project",
                         !.labels = labels]

\* The labels component hands over a changed labels object: a key is set to
\* a string, nullified, or gone.
labelsChange ==
  /\ editProject.initialised
  /\ ~editProject.closed
  /\ editProject.request = NoRequest
  /\ \E k \in LabelKeys :
       LET others == {e \in editProject.labels.entries : e.key # k}
       IN  \/ \E v \in {Null, Value(""), Value("v")} :
                editProject' = [editProject EXCEPT
                                  !.labels = Labels(others \cup {[key |-> k, value |-> v]})]
           \/ editProject' = [editProject EXCEPT !.labels = Labels(others)]

nameChange ==
  /\ editProject.initialised
  /\ ~editProject.closed
  /\ editProject.request = NoRequest
  /\ \E name \in ProjectNames : editProject' = [editProject EXCEPT !.name = name]

\* getObservable: the nullified labels are deleted from this.labels, and the
\* project model with these labels is sent.
EditProjectGetObservable ==
  /\ editProject.initialised
  /\ ~editProject.closed
  /\ editProject.request = NoRequest
  /\ editProject' =
       [editProject EXCEPT
          !.labels = removeNullified(@),
          !.request = <<[name |-> editProject.name,
                         labels |-> removeNullified(editProject.labels)]>>]

\* The request succeeded: the dialog closes.
onNext ==
  /\ editProject.request # NoRequest
  /\ ~editProject.closed
  /\ editProject' = [editProject EXCEPT !.closed = TRUE]

\* The request failed: the dialog stays open.
editFailed ==
  /\ editProject.request # NoRequest
  /\ ~editProject.closed
  /\ editProject' = [editProject EXCEPT !.request = NoRequest]

NextEditProject ==
  /\ \/ EditProjectNgOnInit
     \/ labelsChange
     \/ nameChange
     \/ EditProjectGetObservable
     \/ onNext
     \/ editFailed
  /\ UNCHANGED <<providerVars, quotaVars, nodeVars>>

SpecEditProject == InitUI /\ [][NextEditProject]_vars

-----------------------------------------------------------------------------
(* Properties *)

Returned(p, o) == pc[p] = "done" /\ op[p] = o

CallsOf(p) == {log[p][i].call : i \in DOMAIN log[p]}

Succeeded(p, call) == \E i \in DOMAIN log[p] : log[p][i] = [call |-> call, ok |-> TRUE]

Failed(p, call) == \E i \in DOMAIN log[p] : log[p][i] = [call |-> call, ok |-> FALSE]

LastCall(p) == log[p][Len(log[p])]

\* C1: whenever a cleanUp invocation returns success and both cleanup
\* finalizers are absent from the tracked cluster, no VM folder and no tag
\* category that an initialize invocation created still exists in vCenter.
C1_CleanUpReversesAllSideEffects ==
  \A p \in Procs :
    ( /\ Returned(p, "cleanUp")
      /\ result[p] = "ok"
      /\ ~HasFinalizer(cluster, folderCleanupFinalizer)
      /\ ~HasFinalizer(cluster, tagCategoryCleanupFinilizer) )
    => /\ \A f \in createdFolders : ~BagIn(f, vcFolders)
       /\ createdCategories \cap vcCategories = {}

\* C2: every session whose login succeeded is logged out before the
\* operation returns, on every exit path.
C2_SessionsLoggedOutOnReturn ==
  \A p \in Procs : pc[p] = "done" => loggedIn[p] = {}

\* C3: in initialize, the update that records the folder path and the
\* folder-cleanup finalizer is applied only after the folder creation call of
\* the same invocation has succeeded, and the update that records
\* tagCategoryID and the tag-category-cleanup finalizer only after the tag
\* category creation call of the same invocation has succeeded; the recorded
\* resource exists in vCenter when it is recorded.
C3_UpdateOnlyAfterCreate ==
  [][ /\ ( \/ cluster'.Folder # cluster.Folder
           \/ ( /\ HasFinalizer(cluster', folderCleanupFinalizer)
                /\ ~HasFinalizer(cluster, folderCleanupFinalizer) ) )
         => \E p \in Procs :
              /\ op[p] = "initialize"
              /\ log[p] # <<>>
              /\ LastCall(p) = [call |-> "createVMFolder", ok |-> TRUE]
              /\ log'[p] = Append(log[p], [call |-> "updateFolder", ok |-> TRUE])
              /\ BagIn(cluster'.Folder, vcFolders)
              /\ HasFinalizer(cluster', folderCleanupFinalizer)
      /\ ( \/ cluster'.TagCategoryID # cluster.TagCategoryID
           \/ ( /\ HasFinalizer(cluster', tagCategoryCleanupFinilizer)
                /\ ~HasFinalizer(cluster, tagCategoryCleanupFinilizer) ) )
         => \E p \in Procs :
              /\ op[p] = "initialize"
              /\ log[p] # <<>>
              /\ LastCall(p) = [call |-> "createTagCategory", ok |-> TRUE]
              /\ log'[p] = Append(log[p], [call |-> "updateTagCategory", ok |-> TRUE])
              /\ cluster'.TagCategoryID \in vcCategories
              /\ HasFinalizer(cluster', tagCategoryCleanupFinilizer)
    ]_vars

\* C3 witness: an initialize invocation has created and recorded both the
\* folder and the tag category.
C3_Witness ==
  \E p \in Procs :
    /\ Returned(p, "initialize")
    /\ result[p] = "ok"
    /\ Succeeded(p, "updateFolder")
    /\ Succeeded(p, "updateTagCategory")
    /\ cluster.Folder = ClusterFolder(p)
    /\ cluster.TagCategoryID = categoryID[p]

FolderState(c) == <<c.Folder, HasFinalizer(c, folderCleanupFinalizer)>>

TagCategoryState(c) == <<c.TagCategoryID, HasFinalizer(c, tagCategoryCleanupFinilizer)>>

\* C4: initialize on a cluster whose folder is non-empty and whose
\* tagCategoryID is empty issues no folder creation call and no update that
\* touches the folder or the folder-cleanup finalizer; the only thing it
\* creates is the tag category, and when it succeeds the category's ID is
\* recorded together with the tag-category-cleanup finalizer.
C4_ResumeCreatesOnlyTagCategory ==
  \A p \in Procs :
    ( /\ op[p] = "initialize"
      /\ pre[p].Folder # NoPath
      /\ pre[p].TagCategoryID = NoID )
    => /\ CallsOf(p) \subseteq {"newRESTSession", "createTagCategory", "updateTagCategory"}
       /\ FolderState(cluster) = FolderState(pre[p])
       /\ vcFolders = preFolders[p]
       /\ (pc[p] \in {"return", "done"} /\ result[p] = "ok")
            => /\ Succeeded(p, "createTagCategory")
               /\ categoryID[p] # NoID
               /\ categoryID[p] \in vcCategories
               /\ cluster.TagCategoryID = categoryID[p]
               /\ HasFinalizer(cluster, tagCategoryCleanupFinilizer)

\* C4 witness: an initialize invocation resumed after the folder step of an
\* earlier one and recorded the tag category.
C4_Witness ==
  \E p \in Procs :
    /\ Returned(p, "initialize")
    /\ pre[p].Folder = ClusterFolder(p)
    /\ pre[p].TagCategoryID = NoID
    /\ result[p] = "ok"
    /\ cluster.TagCategoryID = categoryID[p]

FolderStepCalls(o) ==
  IF o = "initialize"
    THEN {"newSession", "createVMFolder", "updateFolder"}
    ELSE {"newSession", "newRESTSession", "deleteVMFolder", "updateFolder"}

TagCategoryStepCalls(o) ==
  IF o = "initialize"
    THEN {"newRESTSession", "createTagCategory", "updateTagCategory"}
    ELSE {"newSession", "newRESTSession", "deleteTagCategory", "updateTagCategory"}

\* The first call of the step that the call belongs to, and its place among
\* the calls of an invocation that starts with that step.
RetriedCall(o, call) ==
  IF o = "initialize"
    THEN IF call \in {"newSession", "createVMFolder", "updateFolder"}
           THEN [at |-> 1, call |-> "newSession"]
           ELSE [at |-> 1, call |-> "newRESTSession"]
    ELSE IF call \in {"deleteVMFolder", "updateFolder"}
           THEN [at |-> 3, call |-> "deleteVMFolder"]
           ELSE [at |-> 3, call |-> "deleteTagCategory"]

\* C5: a failed call of initialize or cleanUp ends the invocation with an
\* error, and the tracked cluster's field and finalizer of the resource whose
\* step failed are what they were when the invocation started; the next
\* invocation of the operation starts again with the step that failed.
C5_FailedStepLeavesResourceAsBefore ==
  \A p \in Procs :
    /\ \A i \in DOMAIN log[p] :
         ~log[p][i].ok
         => /\ i = Len(log[p])
            /\ pc[p] \in {"return", "done"}
            /\ result[p] = "err"
            /\ failedAt[p] = log[p][i].call
            /\ log[p][i].call \in FolderStepCalls(op[p])
                 => FolderState(cluster) = FolderState(pre[p])
            /\ log[p][i].call \in TagCategoryStepCalls(op[p])
                 => TagCategoryState(cluster) = TagCategoryState(pre[p])
    /\ ( /\ op[p] = prev[p].op
         /\ prev[p].failedAt \in
              (FolderStepCalls(op[p]) \cup TagCategoryStepCalls(op[p]))
                \ (IF op[p] = "cleanUp" THEN {"newSession", "newRESTSession"} ELSE {})
         /\ Len(log[p]) >= RetriedCall(op[p], prev[p].failedAt).at )
       => log[p][RetriedCall(op[p], prev[p].failedAt).at].call
            = RetriedCall(op[p], prev[p].failedAt).call

\* C5 witness: an initialize invocation whose predecessor had failed creating
\* the folder created and recorded the folder and then failed in the tag
\* category step, after the category had been created.
C5_Witness ==
  \E p \in Procs :
    /\ Returned(p, "initialize")
    /\ Succeeded(p, "updateFolder")
    /\ Succeeded(p, "createTagCategory")
    /\ failedAt[p] = "updateTagCategory"
    /\ result[p] = "err"
    /\ prev[p].op = "initialize"
    /\ prev[p].failedAt = "createVMFolder"

\* C6: when the folder deletion call of cleanUp fails, cleanUp returns an
\* error and the folder-cleanup finalizer is still on the tracked cluster;
\* likewise for the tag category deletion and its finalizer.
C6_FailedDeleteKeepsFinalizer ==
  \A p \in Procs :
    Returned(p, "cleanUp")
    => /\ Failed(p, "deleteVMFolder")
            => /\ result[p] = "err"
               /\ HasFinalizer(cluster, folderCleanupFinalizer)
       /\ Failed(p, "deleteTagCategory")
            => /\ result[p] = "err"
               /\ HasFinalizer(cluster, tagCategoryCleanupFinilizer)

\* C6 witness: cleanUp returned after its folder deletion call failed.
C6_Witness ==
  \E p \in Procs : Returned(p, "cleanUp") /\ Failed(p, "deleteVMFolder")

InitializedFrom(c, folder, id) ==
  [c EXCEPT !.Folder = IF c.Folder = NoPath THEN folder ELSE @,
            !.TagCategoryID = IF c.TagCategoryID = NoID THEN id ELSE @,
            !.Finalizers = (@ \cup (IF c.Folder = NoPath THEN {folderCleanupFinalizer} ELSE {}))
                             \cup (IF c.TagCategoryID = NoID
                                     THEN {tagCategoryCleanupFinilizer} ELSE {})]

RetryOfFailedFolderUpdate(p) ==
  /\ op[p] = "initialize"
  /\ prev[p].op = "initialize"
  /\ prev[p].failedAt = "updateFolder"

\* C8: when initialize created the folder and its update failed, the folder
\* stays in vCenter and the tracked cluster is unchanged; the next initialize
\* repeats the creation as a no-op (one folder at that path), then records
\* path and finalizer, and after it succeeds the tracked cluster is what a
\* successful first invocation leaves.
C8_RetryAfterFailedFolderUpdate ==
  \A p \in Procs :
    /\ (Returned(p, "initialize") /\ failedAt[p] = "updateFolder")
         => /\ cluster = pre[p]
            /\ CopiesIn(ClusterFolder(p), vcFolders) = 1
    /\ (RetryOfFailedFolderUpdate(p) /\ Succeeded(p, "createVMFolder"))
         => /\ vcFolders = preFolders[p]
            /\ CopiesIn(ClusterFolder(p), vcFolders) = 1
    /\ (RetryOfFailedFolderUpdate(p) /\ pc[p] = "done" /\ result[p] = "ok")
         => /\ pre[p] = prev[p].pre
            /\ Succeeded(p, "createVMFolder")
            /\ Succeeded(p, "updateFolder")
            /\ cluster = InitializedFrom(prev[p].pre, ClusterFolder(p), categoryID[p])
            /\ CopiesIn(ClusterFolder(p), vcFolders) = 1
    /\ (Returned(p, "initialize") /\ result[p] = "ok")
         => cluster = InitializedFrom(pre[p], ClusterFolder(p), categoryID[p])

\* C8 witness: an initialize invocation succeeded right after one whose
\* folder update had failed.
C8_Witness ==
  \E p \in Procs :
    /\ RetryOfFailedFolderUpdate(p)
    /\ pc[p] = "done"
    /\ result[p] = "ok"

\* C9: once two concurrent initialize invocations that both started from a
\* cluster with empty folder and empty tagCategoryID have returned (here:
\* both with success), the tracked cluster carries both finalizers and every
\* folder and tag category they created is the one the tracked cluster
\* references.
C9_ConcurrentInitializeLeavesNothingUntracked ==
  ( \A p \in Procs :
      /\ Returned(p, "initialize")
      /\ result[p] = "ok"
      /\ pre[p].Folder = NoPath
      /\ pre[p].TagCategoryID = NoID )
  => /\ HasFinalizer(cluster, folderCleanupFinalizer)
     /\ HasFinalizer(cluster, tagCategoryCleanupFinilizer)
     /\ \A f \in createdFolders : BagIn(f, vcFolders) => f = cluster.Folder
     /\ \A c \in createdCategories \cap vcCategories : c = cluster.TagCategoryID

\* C10: across any sequence of initialize and cleanUp invocations, folder and
\* tagCategoryID are written only while empty: each goes from empty to
\* non-empty at most once, a non-empty value is never replaced by another,
\* and neither goes back to empty other than in a cleanup step that removes
\* the matching finalizer.
C10_FieldsWrittenOnce ==
  [][ /\ cluster.Folder # NoPath
         => \/ cluster'.Folder = cluster.Folder
            \/ /\ cluster'.Folder = NoPath
               /\ \E p \in Procs : op[p] = "cleanUp"
               /\ HasFinalizer(cluster, folderCleanupFinalizer)
               /\ ~HasFinalizer(cluster', folderCleanupFinalizer)
      /\ cluster.TagCategoryID # NoID
         => \/ cluster'.TagCategoryID = cluster.TagCategoryID
            \/ /\ cluster'.TagCategoryID = NoID
               /\ \E p \in Procs : op[p] = "cleanUp"
               /\ HasFinalizer(cluster, tagCategoryCleanupFinilizer)
               /\ ~HasFinalizer(cluster', tagCategoryCleanupFinilizer)
    ]_vars

\* C10 witness: initialize ran again on a cluster that an earlier initialize
\* had provisioned, and the fields kept their values.
C10_Witness ==
  \E p \in Procs :
    /\ Returned(p, "initialize")
    /\ result[p] = "ok"
    /\ pre[p].Folder = ClusterFolder(p)
    /\ pre[p].TagCategoryID # NoID
    /\ HasFinalizer(pre[p], folderCleanupFinalizer)
    /\ cluster.Folder = pre[p].Folder
    /\ cluster.TagCategoryID = pre[p].TagCategoryID

-----------------------------------------------------------------------------
Provisioned(c) ==
  /\ c.Folder # NoPath
  /\ c.TagCategoryID # NoID
  /\ HasFinalizer(c, folderCleanupFinalizer)
  /\ HasFinalizer(c, tagCategoryCleanupFinilizer)

CredentialsResolve == ~GetCredentialsForCluster(cluster, secrets, dc).err

\* C11 (as stated): if the reconciler keeps re-invoking initialize and the
\* external calls eventually succeed, the tracked cluster eventually has a
\* folder and a tag category ID with both finalizers; once it re-invokes
\* cleanUp instead, both finalizers are eventually absent.
C11_EventuallyProvisionedThenCleaned ==
  /\ <>(deleting \/ Provisioned(cluster))
  /\ deleting ~> (cluster.Finalizers = {})

\* C11 (amended): the same, for a cluster that starts with an empty folder
\* and an empty tag category ID and whose credentials resolve.
C11_AbsentClusterEventuallyProvisionedThenCleaned ==
  /\ (cluster.Folder = NoPath /\ cluster.TagCategoryID = NoID /\ CredentialsResolve)
       => <>(deleting \/ Provisioned(cluster))
  /\ deleting ~> (cluster.Finalizers = {})

\* A call failed on the way, the cluster was provisioned, its deletion was
\* requested and cleanUp has removed both finalizers.
C11_Witness ==
  /\ failures > 0
  /\ deleting
  /\ Returned(1, "cleanUp") /\ result[1] = "ok"
  /\ pre[1].Finalizers = {folderCleanupFinalizer, tagCategoryCleanupFinilizer}
  /\ cluster.Finalizers = {}
  /\ createdFolders # {} /\ createdCategories # {}

-----------------------------------------------------------------------------
\* The positions of an invocation in the order the code reaches them.
StepOrder ==
  <<"i_credentials", "i_newSession", "i_createVMFolder", "i_updateFolder",
    "i_newRESTSession", "i_createTagCategory", "i_updateTagCategory",
    "c_credentials", "c_newSession", "c_newRESTSession", "c_deleteVMFolder",
    "c_updateFolder", "c_deleteTagCategory", "c_updateTagCategory",
    "v_credentials", "v_newSession", "v_defaultDatastore", "v_resourcePool",
    "v_datastoreCluster", "v_datastore", "return", "done">>

Position(label) == CHOOSE i \in DOMAIN StepOrder : StepOrder[i] = label

Running(p) == pc[p] \notin {"idle", "done"}

EachCallOnce(l) == \A i, j \in DOMAIN l : l[i].call = l[j].call => i = j

\* C12: within one invocation of initialize, cleanUp or validate every
\* external call (a session open of either kind, a folder or tag category
\* create or delete, the inventory lookup of each configured name, the update
\* of each resource) is issued at most once; a failed call is the last call
\* of the invocation, which then returns that error; and the invocation
\* terminates: while it runs it always has a next step, and every step moves
\* it to a later position of the function.
C12_EachCallOnceAndNoRetry ==
  /\ [](\A p \in SeqProcs :
          /\ EachCallOnce(log[p])
          /\ \A i \in DOMAIN log[p] :
               ~log[p][i].ok
               => /\ i = Len(log[p])
                  /\ pc[p] \in {"return", "done"}
                  /\ result[p] = "err"
                  /\ failedAt[p] = log[p][i].call
          /\ Running(p) => ENABLED (\/ InitializeCloudProvider(p)
                                    \/ CleanUpCloudProvider(p)
                                    \/ ValidateCloudSpec(p)
                                    \/ Return(p)))
  /\ [][\A p \in SeqProcs :
          Running(p) => Position(pc'[p]) > Position(pc[p])]_vars

\* C12 witness: a validation looked up the default datastore, the resource
\* pool and the datastore cluster, each once, and returned the error of the
\* first lookup that failed.
C12_Witness ==
  /\ Returned(1, "validate")
  /\ result[1] = "err"
  /\ [k \in DOMAIN log[1] |-> log[1][k].call]
       = <<"newSession", "Datastore(default)", "ResourcePool", "DatastoreCluster">>
  /\ failedAt[1] = "DatastoreCluster"

-----------------------------------------------------------------------------
Resolved(p) == pc[p] = "done" /\ op[p] = "credentials"

DatacenterUserSet ==
  /\ ~dc.InfraManagementUser.nil
  /\ dc.InfraManagementUser.Username # ""
  /\ dc.InfraManagementUser.Password # ""

RECURSIVE FirstNonEmpty(_)
FirstNonEmpty(values) ==
  IF values = <<>> THEN ""
  ELSE IF Head(values) # "" THEN Head(values)
  ELSE FirstNonEmpty(Tail(values))

\* The sources of each field, in the order of the claim.
UsernameSources ==
  <<cluster.InfraManagementUser.Username, cluster.Username,
    secrets[VsphereInfraManagementUserUsername].v, secrets[VsphereUsername].v>>

PasswordSources ==
  <<cluster.InfraManagementUser.Password, cluster.Password,
    secrets[VsphereInfraManagementUserPassword].v, secrets[VspherePassword].v>>

\* C13: the resolution returns the datacenter's management user whenever both
\* of its fields are non-empty, whatever the cluster carries; when the
\* datacenter's management user is nil or not fully set and the cluster's
\* management user has both fields, it returns the cluster's management user
\* and not the cluster's inline username and password.
C13_ManagementUserPrecedence ==
  Resolved(1)
  => /\ DatacenterUserSet
          => /\ result[1] = "ok"
             /\ creds[1] = <<dc.InfraManagementUser.Username, dc.InfraManagementUser.Password>>
     /\ ( /\ ~DatacenterUserSet
          /\ cluster.InfraManagementUser.Username # ""
          /\ cluster.InfraManagementUser.Password # "" )
          => /\ result[1] = "ok"
             /\ creds[1] = <<cluster.InfraManagementUser.Username,
                             cluster.InfraManagementUser.Password>>

\* C13 witness: no datacenter management user, the cluster has a management
\* user and different inline credentials, and the management user came back.
C13_Witness ==
  /\ Resolved(1)
  /\ dc.InfraManagementUser.nil
  /\ cluster.Username = "cu" /\ cluster.Password = "cp"
  /\ creds[1] = <<"imu", "imp">>

\* C14: when the datacenter's management user is not fully set, a successful
\* resolution returns as username the first non-empty value among the
\* cluster's management-user field, its inline field, the secret's
\* management-user key and the secret's plain key, and as password the first
\* non-empty value of the same chain for the password, whichever source the
\* other field came from; and with a credentialsReference whose keys can all
\* be read it succeeds as soon as each chain has a non-empty value.
C14_FieldsResolvedIndependently ==
  (Resolved(1) /\ ~DatacenterUserSet)
  => /\ result[1] = "ok"
          => creds[1] = <<FirstNonEmpty(UsernameSources), FirstNonEmpty(PasswordSources)>>
     /\ ( /\ cluster.CredentialsReference
          /\ \A k \in SecretKeys : ~secrets[k].err
          /\ FirstNonEmpty(UsernameSources) # ""
          /\ FirstNonEmpty(PasswordSources) # "" )
          => result[1] = "ok"

\* C14 witness: the username came from the cluster's inline field and the
\* password from the plain key of the secret.
C14_Witness ==
  /\ Resolved(1)
  /\ ~DatacenterUserSet
  /\ result[1] = "ok"
  /\ cluster.InfraManagementUser = NoUser
  /\ cluster.Username = "cu" /\ cluster.Password = ""
  /\ secrets[VsphereInfraManagementUserPassword] = SecretValue("")
  /\ creds[1] = <<"cu", secrets[VspherePassword].v>>

\* C15: the resolution fails whenever every source has been consulted and the
\* username or the password is still empty, and whenever there is no
\* credentialsReference and the management-user and inline fields do not give
\* both a username and a password; a resolution that succeeds returns a
\* non-empty username and a non-empty password.
C15_IncompleteCredentialsFail ==
  Resolved(1)
  => /\ result[1] = "ok" => (creds[1][1] # "" /\ creds[1][2] # "")
     /\ ( /\ ~DatacenterUserSet
          /\ \/ FirstNonEmpty(UsernameSources) = ""
             \/ FirstNonEmpty(PasswordSources) = "" )
          => result[1] = "err"
     /\ ( /\ ~DatacenterUserSet
          /\ ~cluster.CredentialsReference
          /\ \/ FirstNonEmpty(SubSeq(UsernameSources, 1, 2)) = ""
             \/ FirstNonEmpty(SubSeq(PasswordSources, 1, 2)) = "" )
          => result[1] = "err"

\* C15 witness: a credentialsReference exists, every key of the secret was
\* read, the username was found and the password was not.
C15_Witness ==
  /\ Resolved(1)
  /\ ~DatacenterUserSet
  /\ cluster.CredentialsReference
  /\ \A k \in SecretKeys : ~secrets[k].err
  /\ FirstNonEmpty(UsernameSources) # ""
  /\ FirstNonEmpty(PasswordSources) = ""
  /\ result[1] = "err"

-----------------------------------------------------------------------------
PastCredentials(p) ==
  pc[p] \notin {"idle", "i_credentials", "c_credentials", "v_credentials"}

\* C16: when the credential resolution fails, initialize, cleanUp and
\* validate return that error: no session is opened and no login attempted,
\* no external call is issued, and the tracked cluster and the vCenter
\* inventory are as they were when the invocation started.
C16_CredentialFailureDoesNothing ==
  \A p \in SeqProcs :
    ( /\ PastCredentials(p)
      /\ op[p] \in Operations \cup {"validate"}
      /\ GetCredentialsForCluster(pre[p], secrets, dc).err )
    => /\ result[p] = "err"
       /\ failedAt[p] = "GetCredentialsForCluster"
       /\ log[p] = <<>>
       /\ logins[p] = <<>>
       /\ loggedIn[p] = {}
       /\ deferred[p] = <<>>
       /\ cluster = pre[p]
       /\ vcFolders = preFolders[p]

\* C16 witness: a cleanUp invocation on a cluster whose credentials do not
\* resolve has returned, after a validation had failed the same way.
C16_Witness ==
  /\ Returned(1, "cleanUp")
  /\ GetCredentialsForCluster(pre[1], secrets, dc).err
  /\ failedAt[1] = "GetCredentialsForCluster"
  /\ prev[1].op = "validate"
  /\ prev[1].failedAt = "GetCredentialsForCluster"

-----------------------------------------------------------------------------
BothDatastoresSet(p) == vspec[p].Datastore # "" /\ vspec[p].DatastoreCluster # ""

NoDatastoreAtAll(p) ==
  dc.DefaultDatastore = "" /\ vspec[p].Datastore = "" /\ vspec[p].DatastoreCluster = ""

ConfigurationError(e) == e.text \in {NoDatastoreText, EitherDatastoreText}

\* C17 (as stated): a validation of a spec that sets both the datastore and
\* the datastore cluster, or of a spec that sets neither in a datacenter
\* without a default datastore, fails with a configuration error.
C17_BadDatastoreConfigIsConfigurationError ==
  \A p \in SeqProcs :
    (Returned(p, "validate") /\ (BothDatastoresSet(p) \/ NoDatastoreAtAll(p)))
    => result[p] = "err" /\ ConfigurationError(verr[p])

\* C17 (amended): such a validation fails without opening a session; its
\* error is the configuration error of the check that refused the spec when
\* the credentials resolve, and the error of the credential resolution when
\* they do not.
C17_BadDatastoreConfigFails ==
  \A p \in SeqProcs :
    (Returned(p, "validate") /\ (BothDatastoresSet(p) \/ NoDatastoreAtAll(p)))
    => /\ result[p] = "err"
       /\ log[p] = <<>>
       /\ logins[p] = <<>>
       /\ verr[p].text =
            IF GetCredentialsForCluster(pre[p], secrets, dc).err THEN CredentialsText
            ELSE IF NoDatastoreAtAll(p) THEN NoDatastoreText
            ELSE EitherDatastoreText

\* C17 witness: the credentials resolved and a spec with both a datastore and
\* a datastore cluster was refused.
C17_Witness ==
  /\ Returned(1, "validate")
  /\ BothDatastoresSet(1)
  /\ ~GetCredentialsForCluster(pre[1], secrets, dc).err
  /\ verr[1].text = EitherDatastoreText

-----------------------------------------------------------------------------
LookupCalls == {"Datastore(default)", "ResourcePool", "DatastoreCluster", "Datastore"}

\* The field a lookup resolves and the name it looks up.
LookedUpField(call) ==
  CASE call = "Datastore(default)" -> "datastore"
    [] call = "Datastore" -> "datastore"
    [] call = "DatastoreCluster" -> "datastore cluster"
    [] call = "ResourcePool" -> "resource pool"

LookedUpName(p, call) ==
  CASE call = "Datastore(default)" -> dc.DefaultDatastore
    [] call = "Datastore" -> vspec[p].Datastore
    [] call = "DatastoreCluster" -> vspec[p].DatastoreCluster
    [] call = "ResourcePool" -> vspec[p].ResourcePool

\* The field the text of a lookup error speaks of.
FieldNamedBy(text) ==
  CASE text = DefaultDatastoreText -> "datastore"
    [] text = ResourcePoolText -> "resource pool"
    [] text = DatastoreClusterText -> "datastore cluster"
    [] text = DatastoreText -> "datastore cluster"
    [] OTHER -> "none"

\* C18: when an inventory lookup of a validation fails, the returned error
\* names the field whose lookup failed (datastore, datastore cluster or
\* resource pool) and carries the name that was looked up.
C18_LookupErrorNamesFieldAndValue ==
  \A p \in SeqProcs :
    (Returned(p, "validate") /\ failedAt[p] \in LookupCalls)
    => /\ FieldNamedBy(verr[p].text) = LookedUpField(failedAt[p])
       /\ verr[p].value = LookedUpName(p, failedAt[p])

-----------------------------------------------------------------------------
\* C19: no step of a validation changes anything: the tracked cluster and
\* the vCenter folders and tag categories stay as they are, the cloud spec
\* the validation was given stays as it was given, and the only external
\* calls it issues are the session opening and the inventory lookups.
C19_ValidateMutatesNothing ==
  [][\A p \in SeqProcs :
       (op[p] = "validate" /\ Running(p))
       => /\ UNCHANGED <<cluster, vcVars>>
          /\ local'[p] = local[p]
          /\ vspec'[p] = vspec[p]
          /\ {log'[p][i].call : i \in DOMAIN log'[p]} \subseteq {"newSession"} \cup LookupCalls
          /\ cluster' = pre[p]
          /\ vcFolders' = preFolders[p]]_vars

\* C19 witness: a validation of a cluster that carries both finalizers went
\* through the session opening and three lookups and returned success.
C19_Witness ==
  /\ Returned(1, "validate")
  /\ result[1] = "ok"
  /\ [k \in DOMAIN log[1] |-> log[1][k].call]
       = <<"newSession", "Datastore(default)", "ResourcePool", "Datastore">>
  /\ Provisioned(cluster)
  /\ cluster = pre[1]

-----------------------------------------------------------------------------
UpdateValidated(p) == pc[p] = "done" /\ op[p] = "validateUpdate"

FolderRelocated == oldSpec.Folder # NoPath /\ newSpec.Folder # oldSpec.Folder

NoIO(p) == log[p] = <<>> /\ logins[p] = <<>> /\ loggedIn[p] = {}

\* C20 (as stated): the validation of an update fails if the old folder is
\* non-empty and the new folder differs from it and succeeds otherwise; it
\* performs no I/O.
C20_UpdateFailsExactlyOnFolderRelocation ==
  \A p \in SeqProcs :
    UpdateValidated(p)
    => /\ result[p] = "err" <=> FolderRelocated
       /\ NoIO(p)

\* C20 (amended): it fails if the old or the new spec has no vSphere part, or
\* if the old folder is non-empty and the new folder differs from it, and
\* succeeds otherwise; it performs no I/O.
C20_UpdateFailsOnEmptySpecOrFolderRelocation ==
  \A p \in SeqProcs :
    UpdateValidated(p)
    => /\ result[p] = "err" <=> (oldSpec.nil \/ newSpec.nil \/ FolderRelocated)
       /\ (~oldSpec.nil /\ ~newSpec.nil /\ FolderRelocated)
            => verr[p] = [text |-> FolderUpdateText,
                          value |-> <<oldSpec.Folder, newSpec.Folder>>]
       /\ NoIO(p)

\* C20 witness: the old spec had no folder, the new one has, and the update
\* was accepted.
C20_Witness ==
  /\ UpdateValidated(1)
  /\ ~oldSpec.nil /\ oldSpec.Folder = NoPath
  /\ ~newSpec.nil /\ newSpec.Folder = UserFolder
  /\ result[1] = "ok"

-----------------------------------------------------------------------------
\* A path is under a root when it is the root, or continues the root with a
\* slash right after it.
UnderRoot(path, root) ==
  \/ path = root
  \/ /\ Len(path) > Len(root)
     /\ \A i \in 1..Len(root) : path[i] = root[i]
     /\ path[Len(root) + 1] = "/"

\* The places of the list whose path is under the root, in ascending order.
PlacesUnderRoot(refs, root) == {i \in DOMAIN refs : UnderRoot(refs[i], root)}

\* C21: for every folder list of the inventory and every root path, a
\* GetVMFolders call that succeeds returns exactly the folders of the list
\* whose path is the root path or starts with the root path followed by "/",
\* in the order of the list: the k-th returned folder is the k-th such entry
\* of the list.  A path that only has the root path as a string prefix is not
\* returned.
C21_FoldersUnderRootInOrder ==
  \A p \in SeqProcs :
    (Returned(p, "getVMFolders") /\ result[p] = "ok")
    => LET root == getVMRootPathString(listArgs[p].dc)
           places == PlacesUnderRoot(folderRefs[p], root)
       IN  /\ Len(folders[p]) = Cardinality(places)
           /\ \A i \in places :
                folders[p][Cardinality({j \in places : j <= i})] = folderRefs[p][i]
           /\ \A k \in DOMAIN folders[p] :
                ~(/\ strings_HasPrefix(folders[p][k], root)
                  /\ Len(folders[p][k]) > Len(root)
                  /\ folders[p][k][Len(root) + 1] # "/")

\* C21 witness: with root path "/a" the list "/ab", "/a/b" came back as the
\* one folder "/a/b".
C21_Witness ==
  /\ Returned(1, "getVMFolders")
  /\ result[1] = "ok"
  /\ getVMRootPathString(listArgs[1].dc) = <<"/", "a">>
  /\ folderRefs[1] = << <<"/", "a", "b">>, <<"/", "a", "/", "b">> >>
  /\ folders[1] = << <<"/", "a", "/", "b">> >>

-----------------------------------------------------------------------------
\* C22: the result of initialize and cleanUp is the same whether the Logout
\* at the end succeeds or fails: the step that runs the deferred Logout calls
\* leaves the result, the returned cluster and the tracked cluster as they
\* are, and a Logout that failed is known to the error handler only.
C22_LogoutFailureLeavesResult ==
  [][\A p \in SeqProcs :
       (pc[p] = "return" /\ pc'[p] = "done")
       => /\ result'[p] = result[p]
          /\ failedAt'[p] = failedAt[p]
          /\ local'[p] = local[p]
          /\ cluster' = cluster
          /\ handled'[p] \subseteq Range(deferred[p])]_vars

\* C22 witness: an initialize invocation returned success although the
\* Logout of both of its sessions failed.
C22_Witness ==
  /\ Returned(1, "initialize")
  /\ result[1] = "ok"
  /\ handled[1] = {"vim", "rest"}
  /\ Provisioned(cluster)

\* C23: the tracked cluster carries the folder-cleanup finalizer only with a
\* non-empty folder and the tag-category-cleanup finalizer only with a
\* non-empty tagCategoryID, in every state initialize and cleanUp invocations
\* reach from a cluster without finalizers.
C23_FinalizerOnlyWithField ==
  /\ HasFinalizer(cluster, folderCleanupFinalizer) => cluster.Folder # NoPath
  /\ HasFinalizer(cluster, tagCategoryCleanupFinilizer) => cluster.TagCategoryID # NoID

\* C23 witness: the folder and its finalizer were recorded, and the category
\* is still unrecorded because the tag category step failed.
C23_Witness ==
  /\ Returned(1, "initialize")
  /\ failedAt[1] = "updateTagCategory"
  /\ pre[1].Finalizers = {}
  /\ cluster.Finalizers = {folderCleanupFinalizer}
  /\ cluster.Folder = ClusterFolder(1)
  /\ cluster.TagCategoryID = NoID

\* C24: a cleanUp invocation that returns success has looked for the
\* cluster's folder (the path it knows: the root path and the cluster's name)
\* and removed it when it was there, whether or not the folder-cleanup
\* finalizer was on the cluster.
C24_CleanUpAlwaysRemovesFolder ==
  \A p \in SeqProcs :
    ( /\ Returned(p, "cleanUp")
      /\ result[p] = "ok"
      /\ BagIn(ClusterFolder(p), preFolders[p]) )
    => /\ Succeeded(p, "deleteVMFolder")
       /\ ~BagIn(ClusterFolder(p), vcFolders)

DeletedBefore(l, i, call) ==
  \E j \in DOMAIN l : j < i /\ l[j] = [call |-> call, ok |-> TRUE]

\* C25: in cleanUp the update that removes the folder-cleanup finalizer
\* follows a successful deleteVMFolder call of the same invocation and the
\* update that removes the tag-category-cleanup finalizer a successful
\* deleteTagCategory call; and no step takes a finalizer off the tracked
\* cluster unless a cleanUp invocation's deletion call for it has succeeded.
C25_FinalizerRemovedOnlyAfterDelete ==
  /\ [](\A p \in SeqProcs :
          op[p] = "cleanUp"
          => \A i \in DOMAIN log[p] :
               /\ log[p][i].call = "updateFolder"
                    => DeletedBefore(log[p], i, "deleteVMFolder")
               /\ log[p][i].call = "updateTagCategory"
                    => DeletedBefore(log[p], i, "deleteTagCategory"))
  /\ [][ /\ (folderCleanupFinalizer \in cluster.Finalizers \ cluster'.Finalizers)
            => \E p \in SeqProcs : op[p] = "cleanUp" /\ Succeeded(p, "deleteVMFolder")
         /\ (tagCategoryCleanupFinilizer \in cluster.Finalizers \ cluster'.Finalizers)
            => \E p \in SeqProcs : op[p] = "cleanUp" /\ Succeeded(p, "deleteTagCategory")
       ]_vars

\* C25 witness: a cleanUp invocation deleted the folder and the category and
\* removed both finalizers.
C25_Witness ==
  /\ Returned(1, "cleanUp")
  /\ result[1] = "ok"
  /\ [k \in DOMAIN log[1] |-> log[1][k].call]
       = <<"newSession", "newRESTSession", "deleteVMFolder", "updateFolder",
           "deleteTagCategory", "updateTagCategory">>
  /\ cluster.Finalizers = {}

-----------------------------------------------------------------------------
\* C26: in an initialize invocation that runs both steps the data-plane
\* session of the folder step is logged out before the tag-plane session of
\* the tag category step is opened: at most one session of the invocation is
\* logged in at any time.
C26_InitializeSessionsSequential ==
  \A p \in SeqProcs :
    op[p] = "initialize" => \A x, y \in loggedIn[p] : x = y

SessionCalls == {"newSession", "newRESTSession"}

\* C27: cleanUp opens the data-plane and the tag-plane session before it
\* looks at a finalizer: a deletion call or an update is issued only after
\* both sessions were opened, and when either cannot be opened cleanUp
\* returns an error with no deletion call and no update issued and nothing
\* changed, whichever finalizers the cluster carries.
C27_CleanUpOpensBothSessionsFirst ==
  \A p \in SeqProcs :
    op[p] = "cleanUp"
    => /\ (CallsOf(p) \ SessionCalls # {})
            => (Succeeded(p, "newSession") /\ Succeeded(p, "newRESTSession"))
       /\ (Failed(p, "newSession") \/ Failed(p, "newRESTSession"))
            => /\ result[p] = "err"
               /\ CallsOf(p) \subseteq SessionCalls
               /\ cluster = pre[p]
               /\ vcFolders = preFolders[p]
       /\ (Len(log[p]) > 0 => log[p][1].call = "newSession")
       /\ (Succeeded(p, "newSession") /\ pc[p] \in {"return", "done"})
            => "newRESTSession" \in CallsOf(p)

\* C27 witness: cleanUp on a cluster without any finalizer returned the error
\* of the tag-plane session.
C27_Witness ==
  /\ Returned(1, "cleanUp")
  /\ pre[1].Finalizers = {}
  /\ Succeeded(1, "newSession")
  /\ failedAt[1] = "newRESTSession"
  /\ result[1] = "err"

FolderCalls == {"createVMFolder", "deleteVMFolder", "updateFolder"}
TagCategoryCalls == {"createTagCategory", "deleteTagCategory", "updateTagCategory"}

FolderStepDue(p) ==
  IF op[p] = "initialize" THEN pre[p].Folder = NoPath
  ELSE HasFinalizer(pre[p], folderCleanupFinalizer)

\* C28: within an initialize or cleanUp invocation every call of the folder
\* step comes before every call of the tag category step; a tag category is
\* created or deleted only when the folder step was not due or both of its
\* calls have succeeded; and after a failed call of the folder step no call
\* of the tag category step is issued.
C28_FolderStepGatesTagCategoryStep ==
  \A p \in SeqProcs :
    op[p] \in Operations
    => /\ \A i, j \in DOMAIN log[p] :
            (log[p][i].call \in FolderCalls /\ log[p][j].call \in TagCategoryCalls) => i < j
       /\ (CallsOf(p) \cap TagCategoryCalls # {})
            => IF FolderStepDue(p)
                 THEN /\ Succeeded(p, IF op[p] = "initialize" THEN "createVMFolder"
                                      ELSE "deleteVMFolder")
                      /\ Succeeded(p, "updateFolder")
                 ELSE CallsOf(p) \cap FolderCalls = {}
       /\ (\E call \in FolderCalls : Failed(p, call))
            => /\ CallsOf(p) \cap TagCategoryCalls = {}
               /\ (op[p] = "initialize" => "newRESTSession" \notin CallsOf(p))

\* C28 witness: the folder update of an initialize invocation failed and the
\* invocation returned without a call of the tag category step, although the
\* cluster has no tag category.
C28_Witness ==
  /\ Returned(1, "initialize")
  /\ [k \in DOMAIN log[1] |-> log[1][k].call] = <<"newSession", "createVMFolder", "updateFolder">>
  /\ failedAt[1] = "updateFolder"
  /\ cluster.TagCategoryID = NoID

\* C29: the username and password presented to vCenter at a login of
\* initialize or cleanUp are the pair the credential resolution returned for
\* that invocation; the datacenter's management user is presented only when
\* both of its fields are non-empty.
C29_LoginWithResolvedCredentials ==
  \A p \in SeqProcs :
    op[p] \in Operations
    => \A i \in DOMAIN logins[p] :
         /\ ~GetCredentialsForCluster(pre[p], secrets, dc).err
         /\ logins[p][i] = <<GetCredentialsForCluster(pre[p], secrets, dc).username,
                             GetCredentialsForCluster(pre[p], secrets, dc).password>>
         /\ logins[p][i] = <<dc.InfraManagementUser.Username, dc.InfraManagementUser.Password>>
              => DatacenterUserSet

\* The secret keys of a credentials resolution, in the order they were asked.
LookedUp(p) == [i \in DOMAIN log[p] |-> log[p][i].call]

InlineUsername == FirstNonEmpty(<<cluster.InfraManagementUser.Username, cluster.Username>>)
InlinePassword == FirstNonEmpty(<<cluster.InfraManagementUser.Password, cluster.Password>>)

\* The plain key at position i directly follows its management-user key,
\* which answered with an empty value.
AfterEmptyManagementKey(p, i, managementKey) ==
  /\ i > 1
  /\ log[p][i - 1].call = managementKey
  /\ log[p][i - 1].ok
  /\ secrets[managementKey].v = ""

\* The management-user key at position i, when it answered with an empty
\* value, is directly followed by the plain key.
EmptyFallsBackTo(p, i, plainKey) ==
  (log[p][i].ok /\ secrets[log[p][i].call].v = "")
    => (i < Len(log[p]) /\ log[p][i + 1].call = plainKey)

\* C30: in a finished credentials resolution the secret store is asked only
\* for a field the inline sources left empty, and only when a
\* credentialsReference is there and the inline sources did not resolve both
\* fields; for such a username the management-user key is asked first, and for
\* such a password it is asked unless a username lookup failed; a plain key is
\* asked exactly when its management-user key answered with an empty value,
\* directly after it; and a lookup that fails is the last lookup and makes the
\* resolution fail.
C30_SecretLookupsInOrderAndStopOnError ==
  \A p \in SeqProcs :
    Resolved(p)
    => /\ (DatacenterUserSet \/ ~cluster.CredentialsReference
             \/ (InlineUsername # "" /\ InlinePassword # ""))
            => log[p] = <<>>
       /\ InlineUsername # ""
            => /\ VsphereInfraManagementUserUsername \notin Range(LookedUp(p))
               /\ VsphereUsername \notin Range(LookedUp(p))
       /\ InlinePassword # ""
            => /\ VsphereInfraManagementUserPassword \notin Range(LookedUp(p))
               /\ VspherePassword \notin Range(LookedUp(p))
       /\ (~DatacenterUserSet /\ cluster.CredentialsReference /\ InlineUsername = "")
            => (log[p] # <<>> /\ log[p][1].call = VsphereInfraManagementUserUsername)
       /\ (~DatacenterUserSet /\ cluster.CredentialsReference /\ InlinePassword = ""
             /\ \A i \in DOMAIN log[p] : log[p][i].ok)
            => VsphereInfraManagementUserPassword \in Range(LookedUp(p))
       /\ \A i \in DOMAIN log[p] :
            /\ log[p][i].call = VsphereUsername
                 => AfterEmptyManagementKey(p, i, VsphereInfraManagementUserUsername)
            /\ log[p][i].call = VspherePassword
                 => AfterEmptyManagementKey(p, i, VsphereInfraManagementUserPassword)
            /\ log[p][i].call = VsphereInfraManagementUserUsername
                 => EmptyFallsBackTo(p, i, VsphereUsername)
            /\ log[p][i].call = VsphereInfraManagementUserPassword
                 => EmptyFallsBackTo(p, i, VspherePassword)
            /\ ~log[p][i].ok => (i = Len(log[p]) /\ result[p] = "err")
            /\ \A j \in DOMAIN log[p] : log[p][i].call = log[p][j].call => i = j

\* The username's management-user key answered empty, its plain key failed,
\* and the password, also empty inline, was never asked for.
C30_Witness ==
  /\ Resolved(1)
  /\ InlinePassword = ""
  /\ log[1] = <<[call |-> VsphereInfraManagementUserUsername, ok |-> TRUE],
                [call |-> VsphereUsername, ok |-> FALSE]>>
  /\ result[1] = "err"

-----------------------------------------------------------------------------
\* The calls a validation has to make on vCenter, in the order of the claim:
\* the session, then one lookup for every non-empty name.
NamedLookups(p) ==
  <<[call |-> "Datastore(default)", name |-> dc.DefaultDatastore],
    [call |-> "ResourcePool", name |-> vspec[p].ResourcePool],
    [call |-> "DatastoreCluster", name |-> vspec[p].DatastoreCluster],
    [call |-> "Datastore", name |-> vspec[p].Datastore]>>

NonEmptyName(l) == l.name # ""

ExpectedCalls(p) ==
  LET due == SelectSeq(NamedLookups(p), NonEmptyName)
  IN  <<"newSession">> \o [i \in DOMAIN due |-> due[i].call]

CallSequence(p) == [i \in DOMAIN log[p] |-> log[p][i].call]

ChecksPass(p) ==
  /\ ~GetCredentialsForCluster(pre[p], secrets, dc).err
  /\ ~NoDatastoreAtAll(p)
  /\ ~BothDatastoresSet(p)

\* C31: a returned validation succeeded exactly when the credentials resolved,
\* the two checks on the datastore fields passed, and the session and the
\* lookup of every non-empty name (datacenter default datastore, resource
\* pool, datastore cluster, datastore, in that order) succeeded; the calls it
\* made are a prefix of that sequence, none when a check refused the spec, and
\* a failing call is the last call and the one the error comes from.
C31_ValidateSucceedsExactlyWhenAllResolve ==
  \A p \in SeqProcs :
    Returned(p, "validate")
    => /\ result[p] = "ok"
            <=> /\ ChecksPass(p)
                /\ CallSequence(p) = ExpectedCalls(p)
                /\ \A i \in DOMAIN log[p] : log[p][i].ok
       /\ IsPrefix(CallSequence(p), ExpectedCalls(p))
       /\ ~ChecksPass(p) => log[p] = <<>>
       /\ ChecksPass(p) => log[p] # <<>>
       /\ \A i \in DOMAIN log[p] :
            ~log[p][i].ok => (i = Len(log[p]) /\ failedAt[p] = log[p][i].call)

\* C31 witness: the cluster names its own datastore, and the validation
\* failed on the datacenter's default datastore before looking at it.
C31_Witness ==
  /\ Returned(1, "validate")
  /\ vspec[1].Datastore = "ds2"
  /\ dc.DefaultDatastore = "ds1"
  /\ log[1] = <<[call |-> "newSession", ok |-> TRUE],
                [call |-> "Datastore(default)", ok |-> FALSE]>>
  /\ result[1] = "err"

-----------------------------------------------------------------------------
\* The step issues a deleteVMFolder call.
IssuesFolderDeletion(p) ==
  /\ Len(log'[p]) = Len(log[p]) + 1
  /\ log'[p][Len(log'[p])].call = "deleteVMFolder"

\* The cluster names a folder and does not carry the folder-cleanup finalizer:
\* the folder is the user's, or cleanUp is done with it.
FolderNotOwned == cluster.Folder # NoPath /\ ~HasFinalizer(cluster, folderCleanupFinalizer)

-----------------------------------------------------------------------------
\* C33: an initialize invocation that returned success leaves a cluster with
\* folder and tagCategoryID set and credentials that resolve; an initialize
\* invocation on such a cluster opens no session, makes no external call,
\* applies no update, leaves cluster and vCenter as they were and returns
\* success with the cluster it was given.
C33_InitializeIdempotentAfterSuccess ==
  \A p \in SeqProcs :
    /\ (Returned(p, "initialize") /\ result[p] = "ok")
         => /\ cluster.Folder # NoPath
            /\ cluster.TagCategoryID # NoID
            /\ ~GetCredentialsForCluster(cluster, secrets, dc).err
    /\ ( /\ op[p] = "initialize"
         /\ pre[p].Folder # NoPath
         /\ pre[p].TagCategoryID # NoID
         /\ ~GetCredentialsForCluster(pre[p], secrets, dc).err )
         => /\ log[p] = <<>>
            /\ logins[p] = <<>>
            /\ loggedIn[p] = {}
            /\ deferred[p] = <<>>
            /\ cluster = pre[p]
            /\ local[p] = pre[p]
            /\ vcFolders = preFolders[p]
            /\ result[p] # "err"
            /\ pc[p] = "done" => result[p] = "ok"

\* C33 witness: initialize provisioned folder and tag category, and the next
\* initialize invocation has returned.
C33_Witness ==
  /\ Returned(1, "initialize")
  /\ result[1] = "ok"
  /\ log[1] = <<>>
  /\ prev[1].op = "initialize"
  /\ prev[1].result = "ok"
  /\ prev[1].pre.Folder = NoPath
  /\ prev[1].pre.TagCategoryID = NoID
  /\ HasFinalizer(cluster, folderCleanupFinalizer)
  /\ HasFinalizer(cluster, tagCategoryCleanupFinilizer)

-----------------------------------------------------------------------------
\* The step issues the named external call.
Issues(p, call) ==
  /\ Len(log'[p]) = Len(log[p]) + 1
  /\ log'[p][Len(log'[p])].call = call

\* The invocation of p follows a cleanUp invocation that returned success on
\* a cluster carrying the finalizer f.
AfterCleanUpOf(p, f) ==
  /\ prev[p].op = "cleanUp"
  /\ prev[p].result = "ok"
  /\ HasFinalizer(prev[p].pre, f)

\* C34: a finalizer is on the cluster only beside its field; a step of cleanUp
\* leaves folder and tagCategoryID as they are; once a field is set no step
\* changes it, issues the creation call for it or adds its finalizer; and in
\* an initialize invocation that follows a successful cleanUp of a
\* provisioned resource, the field is still what it was, its finalizer is
\* absent, the resource is absent from vCenter and no creation call is made.
C34_CleanedResourceNotProvisionedAgain ==
  /\ [](/\ HasFinalizer(cluster, folderCleanupFinalizer) => cluster.Folder # NoPath
        /\ HasFinalizer(cluster, tagCategoryCleanupFinilizer) => cluster.TagCategoryID # NoID
        /\ \A p \in SeqProcs :
             op[p] = "initialize"
             => /\ AfterCleanUpOf(p, folderCleanupFinalizer)
                     => /\ cluster.Folder = prev[p].pre.Folder
                        /\ cluster.Folder # NoPath
                        /\ ~HasFinalizer(cluster, folderCleanupFinalizer)
                        /\ ~BagIn(cluster.Folder, vcFolders)
                        /\ "createVMFolder" \notin CallsOf(p)
                /\ AfterCleanUpOf(p, tagCategoryCleanupFinilizer)
                     => /\ cluster.TagCategoryID = prev[p].pre.TagCategoryID
                        /\ cluster.TagCategoryID # NoID
                        /\ ~HasFinalizer(cluster, tagCategoryCleanupFinilizer)
                        /\ cluster.TagCategoryID \notin vcCategories
                        /\ "createTagCategory" \notin CallsOf(p))
  /\ [][ \A p \in SeqProcs :
           /\ (op[p] = "cleanUp" /\ pc[p] \notin {"idle", "done"})
                => /\ cluster'.Folder = cluster.Folder
                   /\ cluster'.TagCategoryID = cluster.TagCategoryID
           /\ cluster.Folder # NoPath
                => /\ cluster'.Folder = cluster.Folder
                   /\ ~Issues(p, "createVMFolder")
                   /\ HasFinalizer(cluster', folderCleanupFinalizer)
                        => HasFinalizer(cluster, folderCleanupFinalizer)
           /\ cluster.TagCategoryID # NoID
                => /\ cluster'.TagCategoryID = cluster.TagCategoryID
                   /\ ~Issues(p, "createTagCategory")
                   /\ HasFinalizer(cluster', tagCategoryCleanupFinilizer)
                        => HasFinalizer(cluster, tagCategoryCleanupFinilizer) ]_vars

\* C34 witness: initialize has returned success after a cleanUp invocation
\* that removed the folder and the tag category of a provisioned cluster.
C34_Witness ==
  /\ Returned(1, "initialize")
  /\ result[1] = "ok"
  /\ AfterCleanUpOf(1, folderCleanupFinalizer)
  /\ AfterCleanUpOf(1, tagCategoryCleanupFinilizer)
  /\ cluster.Finalizers = {}
  /\ createdFolders # {}
  /\ \A f \in createdFolders : ~BagIn(f, vcFolders)
  /\ vcCategories = {}

-----------------------------------------------------------------------------
\* C35: the project quota dialog is closed with a positive result and shows
\* its success notification only when the create or update request has
\* completed successfully.
C35_SuccessShownOnlyAfterSuccess ==
  (quotaDialog.closed \/ quotaDialog.notifications # <<>>)
    => quotaDialog.response = "ok"

\* The received list holds a quota for the project.
QuotaExists(quotas, projectId) ==
  \E i \in DOMAIN quotas : quotas[i].subjectName = projectId

\* C36: a submission of a valid form issues the update request exactly when
\* the quota list received last holds a quota for the selected project, and
\* the create request otherwise.
C36_UpdateExactlyWhenQuotaExists ==
  [][ (quotaDialog.response # "pending" /\ quotaDialog'.response = "pending")
        => /\ quotaDialog'.request \in {"update", "create"}
           /\ quotaDialog'.request = "update"
                <=> QuotaExists(quotaDialog.quotas, quotaDialog.subjectName) ]_vars

\* Two lists hold the same quotas.
SameQuotas(a, b) == Len(a) = Len(b) /\ Range(a) = Range(b)

\* C39: once the QuotasComponent has received the list the quota service
\* emitted last, its quotas are the quotas of that list, the table shows them
\* and isLoading is false; an emission equal to its quotas changes neither the
\* quotas nor the table data; and after ngOnDestroy no step changes it.
C39_QuotasFollowLatestEmission ==
  /\ []("QuotasComponent" \in emitted.seen
          => /\ ~quotasComponent.isLoading
             /\ SameQuotas(quotasComponent.quotas, emitted.quotas)
             /\ quotasComponent.data = quotasComponent.quotas)
  /\ [][ /\ ("QuotasComponent" \in emitted'.seen
               /\ emitted'.quotas = quotasComponent.quotas)
              => /\ quotasComponent'.quotas = quotasComponent.quotas
                 /\ quotasComponent'.data = quotasComponent.data
         /\ quotasComponent.destroyed => quotasComponent' = quotasComponent ]_vars

\* C39 witness: the component received p2's and p1's quotas, in that or the
\* other order, and shows them; it was destroyed, and the service has since
\* emitted another list.
C39_Witness ==
  /\ quotasComponent.destroyed
  /\ quotasComponent.quotas = <<QuotaDetails("p1"), QuotaDetails("p2")>>
  /\ quotasComponent.data = quotasComponent.quotas
  /\ ~quotasComponent.isLoading
  /\ emitted.quotas = <<QuotaDetails("p3")>>
  /\ emitted.seen = {}

-----------------------------------------------------------------------------
\* The step is an operating system change that reaches the live component.
OperatingSystemChanges ==
  operatingSystem'.n = operatingSystem.n + 1 /\ Live(addNode)

\* C37: while the add-node form is live, the add-node service holds the
\* form's current cpu, memory and template; an operating system change leaves
\* cpu and memory alone, leaves a template that is neither empty nor a
\* built-in default as the user typed it, and replaces an empty or built-in
\* one by the default of the new operating system when that is ubuntu or
\* container linux.
C37_TypedTemplateSurvivesOperatingSystemChange ==
  /\ [](Live(addNode)
          => /\ nodeProviderData # <<>>
             /\ nodeProviderData[1].template = addNode.template
             /\ nodeProviderData[1].cpus = addNode.cpu
             /\ nodeProviderData[1].memory = addNode.memory)
  /\ [][ OperatingSystemChanges
           => /\ addNode'.cpu = addNode.cpu
              /\ addNode'.memory = addNode.memory
              /\ addNode.template \notin {"", "ubuntu-template", "coreos_production_vmware_ova"}
                   => addNode'.template = addNode.template
              /\ addNode.template \in {"", "ubuntu-template", "coreos_production_vmware_ova"}
                   => /\ operatingSystem'.ubuntu
                           => addNode'.template = "ubuntu-template"
                      /\ (~operatingSystem'.ubuntu /\ operatingSystem'.containerLinux)
                           => addNode'.template = "coreos_production_vmware_ova"
                      /\ (~operatingSystem'.ubuntu /\ ~operatingSystem'.containerLinux)
                           => addNode'.template = addNode.template ]_vars

\* C37 witness: the user typed a template of their own; after two operating
\* system changes, the last one to container linux, it is still in the form
\* and at the add-node service.
C37_Witness ==
  /\ Live(addNode)
  /\ operatingSystem.n = 2
  /\ operatingSystem.containerLinux
  /\ addNode.defaultTemplate = "coreos_production_vmware_ova"
  /\ addNode.template = "my-template"
  /\ nodeProviderData[1].template = "my-template"

\* C38: the project model the edit-project dialog sends holds no label whose
\* value is null; when it is sent, its labels are the labels of the dialog
\* that are not null, each with the value it had.
C38_NoNullLabelIsSent ==
  /\ [](editProject.request # NoRequest
          => \A e \in editProject.request[1].labels.entries : ~e.value.null)
  /\ [][ (editProject.request = NoRequest /\ editProject'.request # NoRequest)
           => /\ editProject'.request[1].labels.defined = editProject.labels.defined
              /\ \A e \in editProject'.request[1].labels.entries :
                   e \in editProject.labels.entries
              /\ \A e \in editProject.labels.entries :
                   ~e.value.null => e \in editProject'.request[1].labels.entries ]_vars

\* C38 witness: a project that came with two labels was sent with one label,
\* whose value is the empty string.
C38_Witness ==
  /\ editProject.request # NoRequest
  /\ editProject.project.labels.entries =
       {[key |-> "env", value |-> Value("v")], [key |-> "team", value |-> Value("v")]}
  /\ editProject.request[1].labels.entries = {[key |-> "env", value |-> Value("")]}
  /\ editProject.closed

====
